---- MODULE Spec2Model ----
(***************************************************************************)
(* Authentication / session core of the NGDI metadata catalogue:           *)
(*   - the client-side token validator and its validation cache            *)
(*     (lib/auth-client: validateJwtToken, getCachedValidation,            *)
(*     cacheValidationResult),                                             *)
(*   - the edge gatekeeper (middleware.ts),                                *)
(*   - the session builder (authClient.getSession),                        *)
(*   - the server-side auth service and its routes (login, register,       *)
(*     reset-password).                                                    *)
(* Each subsystem has its own specification over the shared variables.     *)
(***************************************************************************)
EXTENDS Integers, Sequences, FiniteSets, TLC

VARIABLES
    now,                          \* Date.now(), in milliseconds
    localValidationCache,         \* the validation cache (module state of auth-client)
    vjtCall,                      \* the last validateJwtToken call: token, time, result
    mwResponse,                   \* the last gatekeeper invocation: request and response
    authCookie,                   \* the browser's auth_token cookie
    refreshCookie,                \* the browser's refresh_token cookie
    lastSessionRefreshTimestamp,  \* module state of auth-client
    pendingSessionRefresh,        \* module state of auth-client: a promise or null
    sessCall,                     \* the getSession calls (one per caller)
    users,                        \* the User table, by email
    verificationTokens,           \* the VerificationToken table
    resetReq,                     \* the reset-password requests
    authReq,                      \* the login / register requests
    forgotReq,                    \* the password-reset requests (forgotPassword)
    refreshReq,                   \* the server-side refresh-token requests
    loginCall,                    \* the authClient.login calls and their timers
    logoutCall,                   \* the authClient.logout calls
    axiosReq,                     \* the outgoing authAxios requests
    mwCall,                       \* the gatekeeper invocations in progress
    verifyReq,                    \* the verify-email requests
    emailVerified,                \* the emails whose User row has emailVerified set
    form,                         \* the state of the MetadataForm component
    cacheOp                       \* what the last observed cache access did

vars == <<now, localValidationCache, vjtCall, mwResponse, authCookie, refreshCookie,
          lastSessionRefreshTimestamp, pendingSessionRefresh, sessCall,
          users, verificationTokens, resetReq, authReq,
          forgotReq, refreshReq, loginCall, logoutCall, axiosReq,
          mwCall, verifyReq, emailVerified, form, cacheOp>>

gateVars == <<localValidationCache, vjtCall, mwResponse>>
sessVars == <<authCookie, refreshCookie, lastSessionRefreshTimestamp,
              pendingSessionRefresh, sessCall>>
resetVars == <<verificationTokens, resetReq>>
authVars == <<authReq>>
restVars == <<verifyReq, emailVerified, form, cacheOp>>
extVars == <<mwCall, restVars>>
callVars == <<forgotReq, refreshReq, loginCall, logoutCall, axiosReq, extVars>>

-----------------------------------------------------------------------------
(* Bounds of the model *)

MaxTime == 450000          \* the clock stops here (ms)
TickSteps == {150000, 300000}

(* undefined / null *)
Absent == "absent"

(* pendingSessionRefresh = null; a promise is named by the call that made it *)
NoPromise == 0

-----------------------------------------------------------------------------
(* Strings *)

StartsWith(s, p) == Len(s) >= Len(p) /\ SubSeq(s, 1, Len(p)) = p

(* String.prototype.toUpperCase on the role strings of the model *)
ToUpperCase(s) ==
    CASE s \in {"ADMIN", "admin", "Admin"} -> "ADMIN"
      [] s \in {"NODE_OFFICER", "node_officer", "Node_Officer"} -> "NODE_OFFICER"
      [] s \in {"USER", "user", "User"} -> "USER"
      [] s = "superuser" -> "SUPERUSER"
      [] s = "NodeOfficer" -> "NODEOFFICER"
      [] OTHER -> s

-----------------------------------------------------------------------------
(* Tokens.  A token is its raw string, the number of segments its split on *)
(* "." gives, whether jose.decodeJwt can decode it, and the decoded claims. *)

NoRole == [t |-> "none", s |-> "", n |-> 0]
StrRole(s) == [t |-> "str", s |-> s, n |-> 0]
NumRole(n) == [t |-> "num", s |-> "", n |-> n]

Jwt(raw, sub, userId, email, role, hasExp, exp) ==
    [raw |-> raw, segments |-> 3, decodable |-> TRUE, sub |-> sub, userId |-> userId,
     email |-> email, role |-> role, hasExp |-> hasExp, exp |-> exp]

Raw(raw, segments) ==
    [raw |-> raw, segments |-> segments, decodable |-> FALSE, sub |-> Absent,
     userId |-> Absent, email |-> Absent, role |-> NoRole, hasExp |-> FALSE, exp |-> 0]

(* request.cookies.get(name)?.value when the cookie is not sent *)
NoCookie == Raw("<undefined>", 0)

TokEmpty == Raw("", 1)
TokNoDot == Raw("abc", 1)
TokTwoSeg == Raw("a.b", 2)
TokGarbage == Raw("a.b.c", 3)
TokOfficerShort ==
    Jwt("h.officer-short.s", "u1", Absent, "o@x.com", StrRole("NODE_OFFICER"), TRUE, 200)
TokUser == Jwt("h.user.s", Absent, "u2", Absent, StrRole("user"), TRUE, 900)
TokAdminNoExp == Jwt("h.admin.s", "u3", Absent, "a@x.com", StrRole("Admin"), FALSE, 0)
TokNoId == Jwt("h.noid.s", Absent, Absent, "n@x.com", StrRole("NODE_OFFICER"), TRUE, 900)
TokNumRole == Jwt("h.numrole.s", "u4", Absent, "m@x.com", NumRole(1), TRUE, 900)

(* JavaScript truthiness of a string | undefined *)
Truthy(s) == s # Absent /\ s # ""
TokenTruthy(tok) == tok # NoCookie /\ tok.raw # ""

(* Math.floor(Date.now() / 1000) *)
CurrentTime(t) == t \div 1000

-----------------------------------------------------------------------------
(* Validation cache *)

MAX_CACHE_SIZE == 5
CACHE_TTL_MS == 300000     \* 5 * 60 * 1000

(* mutant of FilterFresh: an entry exactly 300 seconds old is kept *)
RECURSIVE FilterFresh_KeepsBoundary(_, _)
FilterFresh_KeepsBoundary(cache, t) ==
    IF cache = <<>> THEN <<>>
    ELSE IF t - Head(cache).timestamp <= CACHE_TTL_MS
         THEN <<Head(cache)>> \o FilterFresh_KeepsBoundary(Tail(cache), t)
         ELSE FilterFresh_KeepsBoundary(Tail(cache), t)

RECURSIVE FilterFresh(_, _)
FilterFresh(cache, t) ==
    IF cache = <<>> THEN <<>>
    ELSE IF t - Head(cache).timestamp < CACHE_TTL_MS
         THEN <<Head(cache)>> \o FilterFresh(Tail(cache), t)
         ELSE FilterFresh(Tail(cache), t)

(* Array.prototype.find: the entries of the token, first match first *)
RECURSIVE FindEntries(_, _)
FindEntries(cache, tok) ==
    IF cache = <<>> THEN <<>>
    ELSE IF Head(cache).token = tok
         THEN <<Head(cache).result>> \o FindEntries(Tail(cache), tok)
         ELSE FindEntries(Tail(cache), tok)

(* getCachedValidation: sweeps the cache, then looks the token up; *)
(* hit = FALSE stands for the null it returns on a miss *)
getCachedValidation(tok, cache, t) ==
    LET swept == FilterFresh(cache, t)
        found == FindEntries(swept, tok)
    IN  [cache |-> swept, hit |-> found # <<>>, found |-> found]

(* mutant of cacheValidationResult: a full cache drops its newest entry *)
cacheValidationResult_DropsNewest(tok, result, cache, t) ==
    LET room == IF Len(cache) >= MAX_CACHE_SIZE
                THEN SubSeq(cache, 1, Len(cache) - 1) ELSE cache
    IN  Append(room, [token |-> tok, result |-> result, timestamp |-> t])

cacheValidationResult(tok, result, cache, t) ==
    LET room == IF Len(cache) >= MAX_CACHE_SIZE THEN Tail(cache) ELSE cache
    IN  Append(room, [token |-> tok, result |-> result, timestamp |-> t])

-----------------------------------------------------------------------------
(* validateJwtToken *)

Invalid(err) ==
    [isValid |-> FALSE, userId |-> Absent, email |-> Absent, role |-> Absent, error |-> err]
Valid(userId, email, role) ==
    [isValid |-> TRUE, userId |-> userId, email |-> email, role |-> role, error |-> ""]

(* decoded.sub || decoded.userId *)
ClaimedUserId(tok) == IF Truthy(tok.sub) THEN tok.sub ELSE tok.userId

(* decoded.exp && decoded.exp < currentTime *)
ExpCheckFails(tok, t) == tok.hasExp /\ tok.exp # 0 /\ tok.exp < CurrentTime(t)

(* mutant of ValidatedRole: the role block of the earlier copy of         *)
(* validateJwtToken (lines 302-355), which also accepts the numeric codes *)
(* "0", "1", "2" and the spelling NodeOfficer                             *)
ValidatedRole_EarlierCopy(tok) ==
    CASE tok.role.t = "none" -> "USER"
      [] tok.role.t = "num" /\ tok.role.n = 0 -> "USER"
      [] tok.role.t = "num" -> "<TypeError>"
      [] tok.role.s = "" -> "USER"
      [] ToUpperCase(tok.role.s) = "ADMIN" \/ tok.role.s \in {"0", "admin", "Admin"}
            -> "ADMIN"
      [] ToUpperCase(tok.role.s) = "NODE_OFFICER"
         \/ tok.role.s \in {"1", "node_officer", "NodeOfficer"}
            -> "NODE_OFFICER"
      [] OTHER -> "USER"

(* the role block of validateJwtToken; a non-string truthy role makes *)
(* roleValue.toUpperCase() throw, which the inner catch reports *)
ValidatedRole(tok) ==
    CASE tok.role.t = "none" -> "USER"
      [] tok.role.t = "num" /\ tok.role.n = 0 -> "USER"
      [] tok.role.t = "num" -> "<TypeError>"
      [] tok.role.s = "" -> "USER"
      [] ToUpperCase(tok.role.s) = "ADMIN" -> "ADMIN"
      [] ToUpperCase(tok.role.s) = "NODE_OFFICER" -> "NODE_OFFICER"
      [] OTHER -> "USER"

(* validateJwtToken past the cache lookup *)
DecodeAndValidate(tok, t) ==
    IF tok.raw = "" THEN Invalid("Empty token provided")
    ELSE IF tok.segments < 2 THEN Invalid("Invalid token format (not a JWT)")
    ELSE IF ~tok.decodable THEN Invalid("Invalid JWT format")
    ELSE IF ExpCheckFails(tok, t) THEN Invalid("Token expired")
    ELSE IF ~Truthy(ClaimedUserId(tok)) THEN Invalid("Token missing user ID")
    ELSE IF ValidatedRole(tok) = "<TypeError>" THEN Invalid("Invalid JWT format")
    ELSE Valid(ClaimedUserId(tok),
               IF Truthy(tok.email) THEN tok.email ELSE "unknown",
               ValidatedRole(tok))

(* validateJwtToken: the result and the cache it leaves *)
validateJwtToken(tok, cache, t) ==
    LET looked == getCachedValidation(tok, cache, t)
    IN  IF looked.hit
        THEN [result |-> Head(looked.found), cache |-> looked.cache]
        ELSE LET r == DecodeAndValidate(tok, t)
             IN  [result |-> r, cache |-> cacheValidationResult(tok, r, looked.cache, t)]

-----------------------------------------------------------------------------
(* Edge gatekeeper (middleware.ts) *)

(* lib/auth/paths: the configured protected route prefixes *)
PROTECTED_ROUTES == {"/profile", "/admin"}

(* the request paths of the model *)
Paths ==
    {"/about", "/profile", "/profile/edit", "/profiles", "/images",
     "/auth/new-user", "/authors", "/api/users",
     "/_next/static/a.js", "/favicon.ico", "/images/a.png", "/fonts/f.woff",
     "/assets/a.css"}

(* the auth_token cookies the gatekeeper is sent *)
GateCookies ==
    {NoCookie, TokEmpty, TokNoDot, TokTwoSeg, TokGarbage,
     TokOfficerShort, TokUser, TokNoId}

(* the tokens callers hand to validateJwtToken *)
ValidateTokens ==
    {TokEmpty, TokNoDot, TokGarbage, TokOfficerShort, TokUser, TokAdminNoExp, TokNumRole}

(* the outcomes of the profile fetch of hasCompletedOnboarding *)
ProfileOutcomes == {"throws", "not-ok", "ok-no-organization", "ok-organization"}

(* mutant of IsExemptPath: the API early return is missing *)
IsExemptPath_NoApi(path) ==
    \/ StartsWith(path, "/auth")
    \/ StartsWith(path, "/_next")
    \/ StartsWith(path, "/favicon.ico")
    \/ StartsWith(path, "/images/")
    \/ StartsWith(path, "/fonts/")
    \/ StartsWith(path, "/assets/")

(* the three early returns of middleware: auth, API and static-asset paths *)
IsExemptPath(path) ==
    \/ StartsWith(path, "/auth")
    \/ StartsWith(path, "/api")
    \/ StartsWith(path, "/_next")
    \/ StartsWith(path, "/favicon.ico")
    \/ StartsWith(path, "/images/")
    \/ StartsWith(path, "/fonts/")
    \/ StartsWith(path, "/assets/")

(* mutant of IsProtectedRoute: exact matches only *)
IsProtectedRoute_ExactOnly(path) == \E route \in PROTECTED_ROUTES : path = route

IsProtectedRoute(path) ==
    \E route \in PROTECTED_ROUTES : path = route \/ StartsWith(path, route \o "/")

(* mutant of hasCompletedOnboarding: a failed lookup counts as onboarded *)
hasCompletedOnboarding_FailOpen(outcome) == outcome # "ok-no-organization"

(* hasCompletedOnboarding: !!userData.organization, false when the fetch *)
(* throws or answers not-OK *)
hasCompletedOnboarding(outcome) == outcome = "ok-organization"

(* the userId, email and role the gatekeeper reads from the decoded token *)
MwUserId(tok) ==
    IF tok.sub # Absent THEN tok.sub
    ELSE IF tok.userId # Absent THEN tok.userId ELSE ""
MwEmail(tok) == IF tok.email # Absent THEN tok.email ELSE "unknown"
MwRole(tok) == IF tok.role.t = "str" THEN tok.role.s ELSE "USER"

(* tokenData.isValid && role === UserRole.NODE_OFFICER *)
ChecksOnboarding(tok, tokenData) == tokenData.isValid /\ MwRole(tok) = "NODE_OFFICER"

(* mutant of NeedsSignIn: the decode result decides *)
NeedsSignIn_ByDecode(path, authToken) ==
    IsProtectedRoute(path) /\ ~(TokenTruthy(authToken) /\ authToken.decodable)

(* isProtectedRoute && !authToken *)
NeedsSignIn(path, authToken) == IsProtectedRoute(path) /\ ~TokenTruthy(authToken)

Response(path, cookie, profile, kind, location, from, tok, withHeaders, fetches, valid) ==
    [path |-> path, cookie |-> cookie, profile |-> IF fetches > 0 THEN profile ELSE "none",
     kind |-> kind, location |-> location, from |-> from,
     xUserId |-> IF withHeaders THEN MwUserId(tok) ELSE Absent,
     xUserEmail |-> IF withHeaders THEN MwEmail(tok) ELSE Absent,
     xUserRole |-> IF withHeaders THEN MwRole(tok) ELSE Absent,
     fetches |-> fetches, tokenValid |-> valid]

(* middleware(request): the response and the validation cache it leaves. *)
(* NextResponse.redirect builds a new response: the headers set on the   *)
(* NextResponse.next() object are not on it.                              *)
middleware(path, cookie, profile, cache, t) ==
    LET decodes == TokenTruthy(cookie) /\ cookie.segments = 3 /\ cookie.decodable
        headers == decodes /\ MwUserId(cookie) # ""
        v == validateJwtToken(cookie, cache, t)
        checks == decodes /\ ChecksOnboarding(cookie, v.result)
        fetches == IF checks THEN 1 ELSE 0
        valid == decodes /\ v.result.isValid
        cacheAfter == IF decodes THEN v.cache ELSE cache
    IN  IF IsExemptPath(path)
        THEN [cache |-> cache,
              response |-> Response(path, cookie, profile, "next", "", "", cookie,
                                    FALSE, 0, FALSE)]
        ELSE IF checks /\ ~hasCompletedOnboarding(profile)
                       /\ ~StartsWith(path, "/auth/new-user")
        THEN [cache |-> cacheAfter,
              response |-> Response(path, cookie, profile, "redirect", "/auth/new-user",
                                    "", cookie, FALSE, fetches, valid)]
        ELSE IF NeedsSignIn(path, cookie)
        THEN [cache |-> cacheAfter,
              response |-> Response(path, cookie, profile, "redirect", "/auth/signin",
                                    path, cookie, FALSE, fetches, valid)]
        ELSE [cache |-> cacheAfter,
              response |-> Response(path, cookie, profile, "next", "", "", cookie,
                                    headers, fetches, valid)]

(* whether middleware(request) reaches the fetch of hasCompletedOnboarding *)
IssuesProfileFetch(path, cookie, cache, t) ==
    /\ ~IsExemptPath(path)
    /\ TokenTruthy(cookie) /\ cookie.segments = 3 /\ cookie.decodable
    /\ ChecksOnboarding(cookie, validateJwtToken(cookie, cache, t).result)

-----------------------------------------------------------------------------
(* Specification of the validator and the gatekeeper *)

NoCall == [token |-> NoCookie, at |-> 0, result |-> Invalid("<no call>")]
NoResponse ==
    Response("", NoCookie, "none", "none", "", "", NoCookie, FALSE, 0, FALSE)

(* the subsystems added later are not running *)
InitExt ==
    /\ mwCall = <<>>
    /\ verifyReq = <<>>
    /\ emailVerified = {}
    /\ form = <<>>
    /\ cacheOp = <<>>

InitOther ==
    /\ authCookie = NoCookie
    /\ refreshCookie = NoCookie
    /\ lastSessionRefreshTimestamp = 0
    /\ pendingSessionRefresh = NoPromise
    /\ sessCall = <<>>
    /\ users = <<>>
    /\ verificationTokens = {}
    /\ resetReq = <<>>
    /\ authReq = <<>>
    /\ forgotReq = <<>>
    /\ refreshReq = <<>>
    /\ loginCall = <<>>
    /\ logoutCall = <<>>
    /\ axiosReq = <<>>

InitGate ==
    /\ now = 0
    /\ localValidationCache = <<>>
    /\ vjtCall = NoCall
    /\ mwResponse = NoResponse
    /\ InitOther
    /\ InitExt

(* time passes *)
Tick ==
    /\ \E d \in TickSteps : now + d <= MaxTime /\ now' = now + d
    /\ UNCHANGED <<gateVars, sessVars, users, resetVars, authVars, callVars>>

(* a caller (isAuthenticated, requireAuth) validates a token *)
ValidateCall ==
    /\ \E tok \in ValidateTokens :
          LET v == validateJwtToken(tok, localValidationCache, now)
          IN  /\ localValidationCache' = v.cache
              /\ vjtCall' = [token |-> tok, at |-> now, result |-> v.result]
    /\ UNCHANGED <<now, mwResponse, sessVars, users, resetVars, authVars, callVars>>

NextValidate == Tick \/ ValidateCall

SpecValidate == InitGate /\ [][NextValidate]_vars

(* the gatekeeper handles one request; the validation cache is the one of *)
(* the gatekeeper's own runtime instance *)
MiddlewareRequest ==
    /\ \E path \in Paths, cookie \in GateCookies :
       \E profile \in IF IssuesProfileFetch(path, cookie, localValidationCache, now)
                      THEN ProfileOutcomes ELSE {"none"} :
          LET m == middleware(path, cookie, profile, localValidationCache, now)
          IN  /\ localValidationCache' = m.cache
              /\ mwResponse' = m.response
    /\ UNCHANGED <<now, vjtCall, sessVars, users, resetVars, authVars, callVars>>

NextGate == Tick \/ MiddlewareRequest

SpecGate == InitGate /\ [][NextGate]_vars

-----------------------------------------------------------------------------
(* Properties of validateJwtToken *)

(* the token's exp claim is earlier than time t (ms) *)
ExpiredAt(tok, t) == tok.hasExp /\ tok.exp * 1000 < t

(* C1 (as claimed): validateJwtToken never returns isValid = true for a token *)
(* whose exp claim is earlier than the time of the call, whatever calls     *)
(* preceded it.                                                              *)
C1_NeverValidWhenExpired ==
    vjtCall.result.isValid => ~ExpiredAt(vjtCall.token, vjtCall.at)

-----------------------------------------------------------------------------
(* Properties of the gatekeeper *)

Handled == mwResponse.kind # "none"

(* the path is auth-, API- or static-prefixed *)
ExemptPrefixes ==
    {"/auth", "/api", "/_next", "/favicon.ico", "/images/", "/fonts/", "/assets/"}
HasExemptPrefix(path) == \E pre \in ExemptPrefixes : StartsWith(path, pre)

(* the path equals a protected route or starts with one followed by "/" *)
OnProtectedRoute(path) ==
    \E route \in PROTECTED_ROUTES : path = route \/ StartsWith(path, route \o "/")

SignInRedirect == mwResponse.kind = "redirect" /\ mwResponse.location = "/auth/signin"
OnboardingRedirect ==
    mwResponse.kind = "redirect" /\ mwResponse.location = "/auth/new-user"
NoIdentityHeaders ==
    /\ mwResponse.xUserId = Absent
    /\ mwResponse.xUserEmail = Absent
    /\ mwResponse.xUserRole = Absent

(* C5: a non-exempt request to a protected path without an auth_token cookie *)
(* is redirected to /auth/signin with from = the original path.              *)
C5_ProtectedWithoutCookieRedirects ==
    (/\ Handled
     /\ ~HasExemptPrefix(mwResponse.path)
     /\ OnProtectedRoute(mwResponse.path)
     /\ mwResponse.cookie = NoCookie)
    => (SignInRedirect /\ mwResponse.from = mwResponse.path)

C5_Witness ==
    /\ mwResponse.path = "/profile/edit"
    /\ mwResponse.cookie = NoCookie
    /\ SignInRedirect
    /\ mwResponse.from = "/profile/edit"

(* C6 (as claimed): the sign-in redirect is decided by the path and by whether *)
(* an auth_token cookie was sent; a cookie that cannot be decoded yields no   *)
(* identity headers and the same decision as a valid cookie (no redirect).    *)
C6_RedirectByCookiePresence ==
    (Handled /\ ~HasExemptPrefix(mwResponse.path))
    => /\ mwResponse.kind \in {"next", "redirect"}
       /\ ~mwResponse.cookie.decodable => NoIdentityHeaders
       /\ SignInRedirect <=>
             (OnProtectedRoute(mwResponse.path) /\ mwResponse.cookie = NoCookie)

(* C6 (amended): the same, with a cookie of empty value counted as absent. *)
C6_RedirectByNonEmptyCookie ==
    (Handled /\ ~HasExemptPrefix(mwResponse.path))
    => /\ mwResponse.kind \in {"next", "redirect"}
       /\ ~mwResponse.cookie.decodable => NoIdentityHeaders
       /\ SignInRedirect <=>
             /\ OnProtectedRoute(mwResponse.path)
             /\ (mwResponse.cookie = NoCookie \/ mwResponse.cookie.raw = "")

C6_Witness ==
    /\ mwResponse.path = "/profile"
    /\ mwResponse.cookie = TokGarbage
    /\ mwResponse.kind = "next"
    /\ NoIdentityHeaders

(* the cookie decodes to a token whose role claim is the string NODE_OFFICER *)
DecodesToNodeOfficer(tok) ==
    tok.segments = 3 /\ tok.decodable /\ tok.role = StrRole("NODE_OFFICER")

(* C7 (as claimed): every non-exempt request whose cookie decodes to role   *)
(* NODE_OFFICER and whose profile lookup shows no organization is redirected *)
(* to /auth/new-user.                                                        *)
C7_OfficerWithoutOrganizationRedirected ==
    (/\ Handled
     /\ ~HasExemptPrefix(mwResponse.path)
     /\ DecodesToNodeOfficer(mwResponse.cookie)
     /\ mwResponse.profile # "ok-organization")
    => OnboardingRedirect

(* C7 (amended): ... whose cookie decodes to role NODE_OFFICER and is reported *)
(* valid by validateJwtToken ...; the redirect carries no identity headers.    *)
C7_ValidOfficerWithoutOrganizationRedirected ==
    (/\ Handled
     /\ ~HasExemptPrefix(mwResponse.path)
     /\ DecodesToNodeOfficer(mwResponse.cookie)
     /\ mwResponse.tokenValid
     /\ mwResponse.profile # "ok-organization")
    => (OnboardingRedirect /\ NoIdentityHeaders /\ mwResponse.fetches = 1)

C7_Witness ==
    /\ mwResponse.path = "/about"
    /\ mwResponse.cookie = TokOfficerShort
    /\ mwResponse.profile = "not-ok"
    /\ OnboardingRedirect

(* C8: an exempt path is passed through with no redirect, no x-user-* header *)
(* and no network call, whatever the auth_token cookie.                      *)
C8_ExemptPathsPassThrough ==
    (Handled /\ HasExemptPrefix(mwResponse.path))
    => /\ mwResponse.kind = "next"
       /\ NoIdentityHeaders
       /\ mwResponse.fetches = 0

C8_Witness ==
    /\ mwResponse.path = "/api/users"
    /\ mwResponse.cookie = TokOfficerShort
    /\ mwResponse.kind = "next"
    /\ NoIdentityHeaders

-----------------------------------------------------------------------------
(* Session builder: authClient.getSession *)

MaxCallers == 3            \* the getSession calls of a run
SessStart == 300000        \* Date.now() when the first call can happen
SessMaxTime == 305000      \* the clock of the session runs stops here
SessTickSteps == {5000}
SESSION_THROTTLE_MS == 5000

Callers == 1..MaxCallers

TokRefresh == Raw("refresh-token", 1)

(* the auth_token cookies of the browser *)
SessTokens == {TokOfficerShort, TokUser, TokGarbage, TokNoId}

(* the outcomes of fetch("/api/auth/check"); an abort on timeout throws *)
CheckOutcomes == {"throws", "not-ok", "ok-authenticated", "ok-not-authenticated"}

(* the fetch throws (an abort on timeout included) or response.ok is false *)
FailedCheckOutcomes == {"throws", "not-ok"}

(* lib/auth/constants: isValidRole *)
isValidRole(role) == role.t = "str" /\ role.s \in {"ADMIN", "NODE_OFFICER", "USER"}

NullSession ==
    [kind |-> "null", id |-> Absent, email |-> Absent, role |-> Absent,
     source |-> "none", accessToken |-> "", refreshToken |-> ""]

(* the session getSession builds from the decoded claims of a token *)
ClaimsSession(tok, refresh, source) ==
    [kind |-> "session",
     id |-> ClaimedUserId(tok),
     email |-> IF Truthy(tok.email) THEN tok.email ELSE "unknown",
     role |-> IF isValidRole(tok.role) THEN tok.role.s ELSE "USER",
     source |-> source,
     accessToken |-> tok.raw,
     refreshToken |-> IF TokenTruthy(refresh) THEN refresh.raw ELSE ""]

(* the session built from the payload of /api/auth/check *)
ServerSession(tok, refresh) ==
    [kind |-> "session", id |-> "server-user", email |-> "server@x.com",
     role |-> "USER", source |-> "server",
     accessToken |-> tok.raw,
     refreshToken |-> IF TokenTruthy(refresh) THEN refresh.raw ELSE ""]

(* a getSession call: where it is, the auth_token its refresh works on,     *)
(* whether it found a cookie, whether the auth_token it read was malformed *)
(* or expired (exp earlier than the current time in whole seconds), the    *)
(* path it took, whether its server check failed, the value it resolves    *)
(* to, and whether it left the session state of the module reset           *)
IdleCall ==
    [pc |-> "idle", token |-> NoCookie, found |-> FALSE, bad |-> FALSE,
     path |-> "none", checkFailed |-> FALSE, value |-> NullSession, awaits |-> NoPromise,
     fetches |-> 0, reset |-> FALSE]

(* the refresh promises that are awaiting /api/auth/check *)
InFlight == {c \in DOMAIN sessCall : sessCall[c].pc = "fetching"}

(* mutant of ShortcutApplies: the recent-check shortcut does not look at exp *)
ShortcutApplies_NoExpiryCheck(token, t, last) ==
    /\ t - last < SESSION_THROTTLE_MS
    /\ TokenTruthy(token)
    /\ token.decodable

(* the recent-check shortcut applies: lines 1291-1327 *)
ShortcutApplies(token, t, last) ==
    /\ t - last < SESSION_THROTTLE_MS
    /\ TokenTruthy(token)
    /\ token.decodable
    /\ ~ExpCheckFails(token, t)

(* the outcome of the refresh body up to its first await (lines 1341-1463): *)
(* "null", "fetch" (awaits the server check) or "client"                    *)
RefreshStart(token, t, verify) ==
    IF ~TokenTruthy(token) THEN "null"
    ELSE IF ~token.decodable THEN "null"
    ELSE IF ExpCheckFails(token, t) THEN "null"
    ELSE IF ~Truthy(ClaimedUserId(token)) THEN "null"
    ELSE IF verify THEN "fetch"
    ELSE "client"

(* mutant of NoCookies: the early return is missing *)
NoCookies_NoEarlyReturn(token, refresh) == FALSE

(* if (!token && !refreshToken) *)
NoCookies(token, refresh) == ~TokenTruthy(token) /\ ~TokenTruthy(refresh)

(* mutant of CheckValue: a failed server check ends the session *)
CheckValue_NullOnFailure(outcome, tok, refresh) ==
    CASE outcome = "ok-authenticated" -> ServerSession(tok, refresh)
      [] OTHER -> NullSession

(* the value of the refresh after fetch("/api/auth/check") has settled: the *)
(* server's user, null when the server says not authenticated, and the     *)
(* session of the token's claims when the fetch throws or is not OK        *)
CheckValue(outcome, tok, refresh) ==
    CASE outcome = "ok-authenticated" -> ServerSession(tok, refresh)
      [] outcome = "ok-not-authenticated" -> NullSession
      [] OTHER -> ClaimsSession(tok, refresh, "client")

(* mutant of SharesPending: a pending refresh is never reused *)
SharesPending_Never(pending) == FALSE

(* if (pendingSessionRefresh) return pendingSessionRefresh *)
SharesPending(pending) == pending # NoPromise

(* getSession, from the call to its first suspension; the calls are numbered *)
(* in the order they are made                                               *)
GetSessionCall(c) ==
    /\ sessCall[c].pc = "idle"
    /\ \A k \in 1..(c - 1) : sessCall[k].pc # "idle"
    /\ LET token == authCookie
           refresh == refreshCookie
           call == [IdleCall EXCEPT
                       !.found = TokenTruthy(token) \/ TokenTruthy(refresh),
                       !.bad = TokenTruthy(token)
                               /\ (~token.decodable \/ ExpCheckFails(token, now))]
       IN  IF NoCookies(token, refresh)
           THEN /\ lastSessionRefreshTimestamp' = 0
                /\ pendingSessionRefresh' = NoPromise
                /\ sessCall' = [sessCall EXCEPT ![c] =
                       [call EXCEPT !.pc = "done", !.path = "no-cookies",
                                    !.reset = (pendingSessionRefresh' = NoPromise
                                               /\ lastSessionRefreshTimestamp' = 0)]]
           ELSE IF SharesPending(pendingSessionRefresh)
           THEN /\ sessCall' = [sessCall EXCEPT ![c] =
                       [call EXCEPT !.pc = "waiting", !.path = "shared",
                                    !.awaits = pendingSessionRefresh]]
                /\ UNCHANGED <<lastSessionRefreshTimestamp, pendingSessionRefresh>>
           ELSE IF ShortcutApplies(token, now, lastSessionRefreshTimestamp)
           THEN /\ sessCall' = [sessCall EXCEPT ![c] =
                       [call EXCEPT !.pc = "done", !.path = "shortcut", !.token = token,
                                    !.value = ClaimsSession(token, refresh, "shortcut")]]
                /\ UNCHANGED <<lastSessionRefreshTimestamp, pendingSessionRefresh>>
           ELSE \E verify \in BOOLEAN :
                  LET start == RefreshStart(token, now, verify)
                  IN  /\ (start # "fetch" => verify = FALSE)
                      /\ pendingSessionRefresh' = c
                      /\ lastSessionRefreshTimestamp' =
                            IF start = "client" THEN now ELSE lastSessionRefreshTimestamp
                      /\ sessCall' = [sessCall EXCEPT ![c] =
                            [call EXCEPT
                               !.pc = IF start = "fetch" THEN "fetching" ELSE "settled",
                               !.path = "refresh",
                               !.token = token,
                               !.fetches = IF start = "fetch" THEN 1 ELSE 0,
                               !.value = IF start = "client"
                                         THEN ClaimsSession(token, refreshCookie, "client")
                                         ELSE NullSession]]
    /\ UNCHANGED <<now, authCookie, refreshCookie, gateVars, users, resetVars, authVars, callVars>>

(* fetch("/api/auth/check") settles with the outcome and the refresh body *)
(* runs to its end                                                        *)
CheckSettles(c, outcome) ==
    /\ sessCall[c].pc = "fetching"
    /\ sessCall' = [sessCall EXCEPT
          ![c].pc = "settled",
          ![c].checkFailed = outcome \in FailedCheckOutcomes,
          ![c].value = CheckValue(outcome, sessCall[c].token, refreshCookie)]
    /\ lastSessionRefreshTimestamp' =
          IF outcome = "ok-not-authenticated"
          THEN lastSessionRefreshTimestamp ELSE now
    /\ UNCHANGED <<now, authCookie, refreshCookie, pendingSessionRefresh,
                   gateVars, users, resetVars, authVars, callVars>>

CheckCompletes(c) == \E outcome \in CheckOutcomes : CheckSettles(c, outcome)

(* the call that started the refresh resumes after await pendingSessionRefresh *)
RefreshReturns(c) ==
    /\ sessCall[c].pc = "settled"
    /\ pendingSessionRefresh' = NoPromise
    /\ sessCall' = [sessCall EXCEPT ![c].pc = "done"]
    /\ UNCHANGED <<now, authCookie, refreshCookie, lastSessionRefreshTimestamp,
                   gateVars, users, resetVars, authVars, callVars>>

(* a call that returned the pending promise settles with that promise *)
SharedReturns(c) ==
    /\ sessCall[c].pc = "waiting"
    /\ sessCall[sessCall[c].awaits].pc \in {"settled", "done"}
    /\ sessCall' = [sessCall EXCEPT ![c].pc = "done",
                                    ![c].value = sessCall[sessCall[c].awaits].value]
    /\ UNCHANGED <<now, authCookie, refreshCookie, lastSessionRefreshTimestamp,
                   pendingSessionRefresh, gateVars, users, resetVars, authVars, callVars>>

(* login, register or a refresh response sets the cookies *)
SetCookies ==
    /\ \E a \in SessTokens : authCookie' = a
    /\ refreshCookie' = TokRefresh
    /\ authCookie' # authCookie \/ refreshCookie' # refreshCookie
    /\ UNCHANGED <<now, lastSessionRefreshTimestamp, pendingSessionRefresh, sessCall,
                   gateVars, users, resetVars, authVars, callVars>>

(* logout, or the user clears the browser data *)
ClearCookies ==
    /\ TokenTruthy(authCookie) \/ TokenTruthy(refreshCookie)
    /\ authCookie' = NoCookie
    /\ refreshCookie' = NoCookie
    /\ UNCHANGED <<now, lastSessionRefreshTimestamp, pendingSessionRefresh, sessCall,
                   gateVars, users, resetVars, authVars, callVars>>

(* the auth_token cookie reaches its Max-Age before the refresh_token cookie *)
AuthCookieExpires ==
    /\ TokenTruthy(authCookie)
    /\ authCookie' = NoCookie
    /\ UNCHANGED <<now, refreshCookie, lastSessionRefreshTimestamp, pendingSessionRefresh,
                   sessCall, gateVars, users, resetVars, authVars, callVars>>

SessTick ==
    /\ \E d \in SessTickSteps : now + d <= SessMaxTime /\ now' = now + d
    /\ UNCHANGED <<gateVars, sessVars, users, resetVars, authVars, callVars>>

InitSession ==
    /\ now = SessStart
    /\ localValidationCache = <<>>
    /\ vjtCall = NoCall
    /\ mwResponse = NoResponse
    /\ authCookie \in SessTokens \cup {NoCookie}
    /\ refreshCookie = IF authCookie = NoCookie THEN NoCookie ELSE TokRefresh
    /\ lastSessionRefreshTimestamp = 0
    /\ pendingSessionRefresh = NoPromise
    /\ sessCall = [c \in Callers |-> IdleCall]
    /\ users = <<>>
    /\ verificationTokens = {}
    /\ resetReq = <<>>
    /\ authReq = <<>>
    /\ forgotReq = <<>>
    /\ refreshReq = <<>>
    /\ loginCall = <<>>
    /\ logoutCall = <<>>
    /\ axiosReq = <<>>
    /\ InitExt

NextSession ==
    \/ \E c \in Callers : GetSessionCall(c)
    \/ \E c \in Callers : CheckCompletes(c)
    \/ \E c \in Callers : RefreshReturns(c)
    \/ \E c \in Callers : SharedReturns(c)
    \/ SetCookies
    \/ ClearCookies
    \/ AuthCookieExpires
    \/ SessTick

SpecSession == InitSession /\ [][NextSession]_vars

(* C2 (as claimed): in every interleaving of getSession calls and cookie *)
(* changes, at most one session refresh is in flight at any time.        *)
C2_AtMostOneRefreshInFlight == Cardinality(InFlight) <= 1

Returned(c) == sessCall[c].pc = "done"

(* C16: a getSession call made when neither cookie is present returns null *)
(* without a network request, and leaves no pending refresh and no        *)
(* recent-check timestamp set.                                            *)
C16_NoCookiesNoSession ==
    \A c \in Callers :
        (sessCall[c].pc # "idle" /\ ~sessCall[c].found)
        => /\ Returned(c)
           /\ sessCall[c].value = NullSession
           /\ sessCall[c].fetches = 0
           /\ sessCall[c].reset

C16_Witness ==
    \E c, k \in Callers :
        /\ k < c
        /\ sessCall[k].pc = "fetching"
        /\ Returned(c) /\ ~sessCall[c].found /\ sessCall[c].value = NullSession
        /\ pendingSessionRefresh = NoPromise
        /\ lastSessionRefreshTimestamp = 0

(* C17: when the server check of getSession fails (throws, is aborted or is *)
(* not OK) for an unexpired token with a user id, getSession returns the   *)
(* session built from the token's claims, not null.                        *)
C17_FailedCheckFallsBackToClaims ==
    \A c \in Callers :
        (Returned(c) /\ sessCall[c].checkFailed)
        => /\ ~sessCall[c].bad
           /\ Truthy(ClaimedUserId(sessCall[c].token))
           /\ sessCall[c].value.kind = "session"
           /\ sessCall[c].value.source = "client"
           /\ sessCall[c].value.id = ClaimedUserId(sessCall[c].token)
           /\ sessCall[c].value.accessToken = sessCall[c].token.raw

C17_Witness ==
    \E c \in Callers :
        /\ Returned(c) /\ sessCall[c].checkFailed
        /\ sessCall[c].token = TokUser
        /\ sessCall[c].value.id = "u2"
        /\ sessCall[c].value.role = "USER"

(* the session of the call was built from locally decoded token claims *)
BuiltFromClaims(c) ==
    /\ Returned(c)
    /\ sessCall[c].path \in {"shortcut", "refresh"}
    /\ sessCall[c].value.kind = "session"
    /\ sessCall[c].value.source \in {"shortcut", "client"}

(* C22: getSession attempts its tiers in the order server-confirmed,       *)
(* recent-check shortcut, client decode, and its result comes from the     *)
(* first that succeeds: a session is never built from locally decoded      *)
(* token claims before server confirmation has been attempted.            *)
C22_ServerAttemptedBeforeClaims ==
    \A c \in Callers : BuiltFromClaims(c) => sessCall[c].fetches >= 1

(* C27: every session getSession builds from token claims (shortcut or      *)
(* client decode) has a user id that is present, non-empty and equal to    *)
(* the token's sub or userId claim.                                        *)
C27_ClaimsSessionHasUserId ==
    \A c \in Callers :
        BuiltFromClaims(c)
        => /\ Truthy(sessCall[c].value.id)
           /\ sessCall[c].value.id \in {sessCall[c].token.sub, sessCall[c].token.userId}

(* getSession resolves, to a session or to null *)
ResolvesToSessionOrNull(c) ==
    \/ sessCall[c].value = NullSession
    \/ sessCall[c].value.kind = "session"

(* C18 (as claimed): getSession never rejects: for every cookie content and *)
(* every network outcome it resolves to a session or to null, and to null  *)
(* whenever the access token is malformed or expired.                      *)
C18_NullForBadToken ==
    \A c \in Callers :
        Returned(c)
        => /\ ResolvesToSessionOrNull(c)
           /\ sessCall[c].bad => sessCall[c].value = NullSession

(* C18 (amended): ... and to null whenever the access token is malformed or *)
(* expired, except that a call made while a refresh is pending resolves to *)
(* the result of that refresh.                                             *)
C18_NullForBadTokenUnlessShared ==
    \A c \in Callers :
        Returned(c)
        => /\ ResolvesToSessionOrNull(c)
           /\ (sessCall[c].bad /\ sessCall[c].path # "shared")
              => sessCall[c].value = NullSession
           /\ sessCall[c].path = "shared"
              => sessCall[c].value = sessCall[sessCall[c].awaits].value

C18_Witness ==
    \E c, k \in Callers :
        /\ Returned(c) /\ sessCall[c].bad /\ sessCall[c].path = "refresh"
        /\ sessCall[c].token = TokGarbage /\ sessCall[c].value = NullSession
        /\ Returned(k) /\ sessCall[k].bad /\ sessCall[k].path = "shared"
        /\ sessCall[k].value.kind = "session"

-----------------------------------------------------------------------------
(* Server side: the credential store *)

Emails == {"a@x.com", "b@x.com"}
Passwords == {"p1", "p2"}

(* bcrypt hash and compare *)
Hash(password) == "bcrypt:" \o password
Compare(password, hashed) == Hash(password) = hashed

NoUser == [exists |-> FALSE, password |-> "", role |-> ""]

(* the User table at the start of a run: one registered principal *)
InitUsers ==
    [e \in Emails |->
        IF e = "a@x.com"
        THEN [exists |-> TRUE, password |-> Hash("p1"), role |-> "USER"]
        ELSE NoUser]

-----------------------------------------------------------------------------
(* resetPassword: AuthService.resetPassword and POST /auth/reset-password *)

MaxResetReqs == 2          \* the reset-password requests of a run
ResetReqs == 1..MaxResetReqs

ResetTokens == {"t1", "t2", "t-unknown"}
ResetVias == {"service", "route"}

(* the VerificationToken table at the start of a run: tokens written by the *)
(* password-reset request flow (1 hour after the request)                   *)
InitVerificationTokens ==
    {[identifier |-> "a@x.com", token |-> "t1", expires |-> 3600000],
     [identifier |-> "a@x.com", token |-> "t2", expires |-> 200000]}

NoRecord == [identifier |-> "", token |-> "", expires |-> 0]

IdleReset ==
    [pc |-> "idle", via |-> "service", token |-> "", password |-> "", rec |-> NoRecord,
     status |-> 0, message |-> "", changed |-> FALSE, later |-> FALSE]

(* prisma.verificationToken.findUnique({ where: { token } }) *)
FindToken(store, token) == {rec \in store : rec.token = token}

(* mutant of DeleteToken: the token is left in the table *)
DeleteToken_Keeps(store, token) == store

(* prisma.verificationToken.delete({ where: { token } }) on a stored token *)
DeleteToken(store, token) == {rec \in store : rec.token # token}

(* a request ends with an error; an error that is no ApiError leaves the   *)
(* service as it is (500) and is rethrown by the route as a 400 ApiError   *)
ResetFails(r, status, message) ==
    resetReq' = [resetReq EXCEPT ![r].pc = "done", ![r].status = status,
                                 ![r].message = message]
ResetFailsUnexpected(r) ==
    IF resetReq[r].via = "route"
    THEN ResetFails(r, 400, "Password reset failed")
    ELSE ResetFails(r, 500, "Internal error")

(* some earlier request with this token has already succeeded *)
SucceededWith(token) ==
    \E k \in ResetReqs :
        /\ resetReq[k].pc = "done"
        /\ resetReq[k].status = 200
        /\ resetReq[k].token = token

(* the request arrives and looks its token up *)
ResetFind(r) ==
    /\ resetReq[r].pc = "idle"
    /\ \A k \in 1..(r - 1) : resetReq[k].pc # "idle"
    /\ \E via \in ResetVias, token \in ResetTokens, password \in Passwords :
          LET found == FindToken(verificationTokens, token)
              req == [IdleReset EXCEPT !.via = via, !.token = token,
                                       !.password = password,
                                       !.later = SucceededWith(token)]
          IN  IF found = {}
              THEN resetReq' = [resetReq EXCEPT ![r] =
                      [req EXCEPT !.pc = "done", !.status = 400,
                                  !.message = "Invalid or expired token"]]
              ELSE resetReq' = [resetReq EXCEPT ![r] =
                      [req EXCEPT !.pc = "found", !.rec = CHOOSE rec \in found : TRUE]]
    /\ UNCHANGED <<now, verificationTokens, users, gateVars, sessVars, authVars, callVars>>

(* the expiry check on the record found; the password is hashed *)
ResetCheckExpiry(r) ==
    /\ resetReq[r].pc = "found"
    /\ resetReq' = [resetReq EXCEPT ![r].pc =
          IF resetReq[r].rec.expires < now THEN "delete-expired"
          ELSE IF resetReq[r].via = "service" THEN "find-user"
          ELSE "update"]
    /\ UNCHANGED <<now, verificationTokens, users, gateVars, sessVars, authVars, callVars>>

(* the expired token is deleted and the request fails *)
ResetDeleteExpired(r) ==
    /\ resetReq[r].pc = "delete-expired"
    /\ IF FindToken(verificationTokens, resetReq[r].token) = {}
       THEN /\ ResetFailsUnexpected(r)
            /\ UNCHANGED verificationTokens
       ELSE /\ verificationTokens' = DeleteToken(verificationTokens, resetReq[r].token)
            /\ ResetFails(r, 400, IF resetReq[r].via = "service"
                                  THEN "Token has expired" ELSE "Token expired")
    /\ UNCHANGED <<now, users, gateVars, sessVars, authVars, callVars>>

(* AuthService.resetPassword looks the user up by the token's identifier *)
ResetFindUser(r) ==
    /\ resetReq[r].pc = "find-user"
    /\ IF users[resetReq[r].rec.identifier].exists
       THEN resetReq' = [resetReq EXCEPT ![r].pc = "update"]
       ELSE ResetFails(r, 404, "User not found")
    /\ UNCHANGED <<now, verificationTokens, users, gateVars, sessVars, authVars, callVars>>

(* prisma.user.update: the password is replaced by the new hash *)
ResetUpdate(r) ==
    /\ resetReq[r].pc = "update"
    /\ IF users[resetReq[r].rec.identifier].exists
       THEN /\ users' = [users EXCEPT ![resetReq[r].rec.identifier].password =
                            Hash(resetReq[r].password)]
            /\ resetReq' = [resetReq EXCEPT ![r].pc = "delete", ![r].changed = TRUE]
       ELSE /\ ResetFailsUnexpected(r)
            /\ UNCHANGED users
    /\ UNCHANGED <<now, verificationTokens, gateVars, sessVars, authVars, callVars>>

(* the used token is deleted and the request succeeds; deleting a record *)
(* that is no longer there throws                                         *)
ResetDelete(r) ==
    /\ resetReq[r].pc = "delete"
    /\ IF FindToken(verificationTokens, resetReq[r].token) = {}
       THEN /\ ResetFailsUnexpected(r)
            /\ UNCHANGED verificationTokens
       ELSE /\ verificationTokens' = DeleteToken(verificationTokens, resetReq[r].token)
            /\ resetReq' = [resetReq EXCEPT ![r].pc = "done", ![r].status = 200,
                                            ![r].message = "Password reset successful"]
    /\ UNCHANGED <<now, users, gateVars, sessVars, authVars, callVars>>

InitReset ==
    /\ now = 0
    /\ localValidationCache = <<>>
    /\ vjtCall = NoCall
    /\ mwResponse = NoResponse
    /\ authCookie = NoCookie
    /\ refreshCookie = NoCookie
    /\ lastSessionRefreshTimestamp = 0
    /\ pendingSessionRefresh = NoPromise
    /\ sessCall = <<>>
    /\ users = InitUsers
    /\ verificationTokens = InitVerificationTokens
    /\ resetReq = [r \in ResetReqs |-> IdleReset]
    /\ authReq = <<>>
    /\ forgotReq = <<>>
    /\ refreshReq = <<>>
    /\ loginCall = <<>>
    /\ logoutCall = <<>>
    /\ axiosReq = <<>>
    /\ InitExt

NextReset ==
    \/ \E r \in ResetReqs : ResetFind(r)
    \/ \E r \in ResetReqs : ResetCheckExpiry(r)
    \/ \E r \in ResetReqs : ResetDeleteExpired(r)
    \/ \E r \in ResetReqs : ResetFindUser(r)
    \/ \E r \in ResetReqs : ResetUpdate(r)
    \/ \E r \in ResetReqs : ResetDelete(r)
    \/ Tick

SpecReset == InitReset /\ [][NextReset]_vars

(* the requests that have changed the password on the authority of a token *)
ChangedWith(token) ==
    {r \in ResetReqs : resetReq[r].token = token /\ resetReq[r].changed}

(* C3 (as claimed): in every interleaving of resetPassword requests that *)
(* present the same valid token, the token authorises at most one        *)
(* password change.                                                      *)
C3_TokenAuthorisesOneChange ==
    \A token \in ResetTokens : Cardinality(ChangedWith(token)) <= 1

(* C4: once a resetPassword call with a token has succeeded, every later *)
(* call with the same token fails with status 400 (invalid or expired    *)
(* token) and does not change the stored password.                       *)
C4_SecondUseFails ==
    \A r \in ResetReqs :
        resetReq[r].later
        => /\ resetReq[r].pc = "done"
           /\ resetReq[r].status = 400
           /\ resetReq[r].message = "Invalid or expired token"
           /\ ~resetReq[r].changed

C4_Witness ==
    \E r \in ResetReqs :
        /\ resetReq[r].later
        /\ resetReq[r].token = "t1"
        /\ resetReq[r].status = 400
        /\ users["a@x.com"].password = Hash("p2")

-----------------------------------------------------------------------------
(* login and register: AuthService.login / register behind POST /auth/login *)
(* and POST /auth/register                                                  *)

MaxAuthReqs == 3           \* the login / register requests of a run
AuthReqs == 1..MaxAuthReqs

NoTokens == [accessToken |-> "", refreshToken |-> ""]

(* generateToken / generateRefreshToken for a user *)
IssueTokens(email, role) ==
    [accessToken |-> "access:" \o email \o ":" \o role,
     refreshToken |-> "refresh:" \o email \o ":" \o role]

(* the HTTP response of a request: status, body and Set-Cookie *)
ErrorResponse(status, message) ==
    [status |-> status, success |-> FALSE, message |-> message,
     code |-> "AUTHENTICATION_ERROR", tokens |-> NoTokens, setCookie |-> FALSE]
SuccessResponse(email, role) ==
    [status |-> 200, success |-> TRUE, message |-> "", code |-> "",
     tokens |-> IssueTokens(email, role), setCookie |-> TRUE]
NoHttpResponse ==
    [status |-> 0, success |-> FALSE, message |-> "", code |-> "",
     tokens |-> NoTokens, setCookie |-> FALSE]

(* mutant of LoginNoUserError: an unknown email is reported as such *)
LoginNoUserError_Reveals == ErrorResponse(404, "User not found")

(* if (!user) throw new HTTPException(401, { message: "Invalid credentials" }) *)
LoginNoUserError == ErrorResponse(401, "Invalid credentials")

(* if (!isValidPassword) throw new HTTPException(401, ...) *)
LoginWrongPasswordError == ErrorResponse(401, "Invalid credentials")

(* if (existingUser) throw new HTTPException(400, ...) *)
RegisterDuplicateError == ErrorResponse(400, "Email already registered")

(* prisma.user.create rejected by the unique index on email: the error is no *)
(* HTTPException, so the route throws HTTPException(500)                     *)
RegisterCreateError ==
    [status |-> 500, success |-> FALSE, message |-> "Registration failed",
     code |-> "", tokens |-> NoTokens, setCookie |-> FALSE]

IdleAuth ==
    [pc |-> "idle", op |-> "", email |-> "", password |-> "", userFound |-> FALSE,
     hashed |-> "", role |-> "", created |-> FALSE, response |-> NoHttpResponse]

AuthDone(r, response) ==
    authReq' = [authReq EXCEPT ![r].pc = "done", ![r].response = response]

(* login: prisma.user.findUnique({ where: { email } }) *)
LoginFind(r) ==
    /\ authReq[r].pc = "idle"
    /\ \A k \in 1..(r - 1) : authReq[k].pc # "idle"
    /\ \E email \in Emails, password \in Passwords :
          LET req == [IdleAuth EXCEPT !.op = "login", !.email = email,
                                      !.password = password]
          IN  IF ~users[email].exists
              THEN authReq' = [authReq EXCEPT ![r] =
                      [req EXCEPT !.pc = "done", !.response = LoginNoUserError]]
              ELSE authReq' = [authReq EXCEPT ![r] =
                      [req EXCEPT !.pc = "compare", !.userFound = TRUE,
                                  !.hashed = users[email].password,
                                  !.role = users[email].role]]
    /\ UNCHANGED <<now, users, gateVars, sessVars, resetVars, callVars>>

(* login: the password is compared, the tokens are issued, the cookies set *)
LoginCompare(r) ==
    /\ authReq[r].pc = "compare"
    /\ IF Compare(authReq[r].password, authReq[r].hashed)
       THEN AuthDone(r, SuccessResponse(authReq[r].email, authReq[r].role))
       ELSE AuthDone(r, LoginWrongPasswordError)
    /\ UNCHANGED <<now, users, gateVars, sessVars, resetVars, callVars>>

(* register: prisma.user.findUnique({ where: { email } }), then the hash *)
RegisterFind(r) ==
    /\ authReq[r].pc = "idle"
    /\ \A k \in 1..(r - 1) : authReq[k].pc # "idle"
    /\ \E email \in Emails, password \in Passwords :
          LET req == [IdleAuth EXCEPT !.op = "register", !.email = email,
                                      !.password = password]
          IN  IF users[email].exists
              THEN authReq' = [authReq EXCEPT ![r] =
                      [req EXCEPT !.pc = "done", !.userFound = TRUE,
                                  !.response = RegisterDuplicateError]]
              ELSE authReq' = [authReq EXCEPT ![r] =
                      [req EXCEPT !.pc = "create", !.hashed = Hash(password)]]
    /\ UNCHANGED <<now, users, gateVars, sessVars, resetVars, callVars>>

(* register: prisma.user.create with role USER; email is @unique *)
RegisterCreate(r) ==
    /\ authReq[r].pc = "create"
    /\ IF users[authReq[r].email].exists
       THEN /\ AuthDone(r, RegisterCreateError)
            /\ UNCHANGED users
       ELSE /\ users' = [users EXCEPT ![authReq[r].email] =
                   [exists |-> TRUE, password |-> authReq[r].hashed, role |-> "USER"]]
            /\ authReq' = [authReq EXCEPT ![r].pc = "done", ![r].created = TRUE,
                                          ![r].role = "USER",
                                          ![r].response =
                                              SuccessResponse(authReq[r].email, "USER")]
    /\ UNCHANGED <<now, gateVars, sessVars, resetVars, callVars>>

InitAuth ==
    /\ now = 0
    /\ localValidationCache = <<>>
    /\ vjtCall = NoCall
    /\ mwResponse = NoResponse
    /\ authCookie = NoCookie
    /\ refreshCookie = NoCookie
    /\ lastSessionRefreshTimestamp = 0
    /\ pendingSessionRefresh = NoPromise
    /\ sessCall = <<>>
    /\ users = InitUsers
    /\ verificationTokens = {}
    /\ resetReq = <<>>
    /\ authReq = [r \in AuthReqs |-> IdleAuth]
    /\ forgotReq = <<>>
    /\ refreshReq = <<>>
    /\ loginCall = <<>>
    /\ logoutCall = <<>>
    /\ axiosReq = <<>>
    /\ InitExt

NextAuth ==
    \/ \E r \in AuthReqs : LoginFind(r)
    \/ \E r \in AuthReqs : LoginCompare(r)
    \/ \E r \in AuthReqs : RegisterFind(r)
    \/ \E r \in AuthReqs : RegisterCreate(r)

SpecAuth == InitAuth /\ [][NextAuth]_vars

FailedLogin(r) ==
    authReq[r].op = "login" /\ authReq[r].pc = "done" /\ ~authReq[r].response.success

(* C9: a login with an email that has no principal and a login with an     *)
(* existing email and a wrong password get the same response (status 401, *)
(* same message and shape), with no token issued and no cookie set.        *)
C9_LoginFailuresIndistinguishable ==
    \A r1, r2 \in AuthReqs :
        (FailedLogin(r1) /\ ~authReq[r1].userFound /\ FailedLogin(r2) /\ authReq[r2].userFound)
        => /\ authReq[r1].response = authReq[r2].response
           /\ authReq[r1].response.status = 401
           /\ authReq[r1].response.tokens = NoTokens
           /\ ~authReq[r1].response.setCookie

C9_Witness ==
    \E r1, r2 \in AuthReqs :
        /\ FailedLogin(r1) /\ authReq[r1].email = "b@x.com" /\ ~authReq[r1].userFound
        /\ FailedLogin(r2) /\ authReq[r2].email = "a@x.com" /\ authReq[r2].userFound
        /\ authReq[r2].password = "p2"

RegistersOf(email) ==
    {r \in AuthReqs : authReq[r].op = "register" /\ authReq[r].email = email}

(* C10 (as claimed): of the register calls for one email exactly one creates *)
(* the principal, with role USER, and every other call fails with status 400 *)
(* 'Email already registered', no tokens and no cookie.                      *)
C10_OneRegistrationOthers400 ==
    \A email \in Emails :
        /\ Cardinality({r \in RegistersOf(email) : authReq[r].created}) <= 1
        /\ \A r \in RegistersOf(email) :
              authReq[r].pc = "done"
              => \/ /\ authReq[r].created
                    /\ users[email].exists
                    /\ users[email].role = "USER"
                 \/ /\ authReq[r].response.status = 400
                    /\ authReq[r].response.message = "Email already registered"
                    /\ authReq[r].response.tokens = NoTokens
                    /\ ~authReq[r].response.setCookie

-----------------------------------------------------------------------------
(* Password-reset requests: AuthService.forgotPassword and                 *)
(* POST /auth/request-password-reset                                       *)

MaxForgotReqs == 2         \* the password-reset requests of a run
ForgotReqs == 1..MaxForgotReqs

RESET_TOKEN_TTL_MS == 3600000    \* expires.setHours(expires.getHours() + 1)

MaxForgotResets == 1       \* the reset-password requests of a run with reset requests
ForgotResets == 1..MaxForgotResets
ForgotMaxTime == 7200002   \* the clock of these runs stops here (ms)
ForgotTickSteps == {3600001}

(* the values randomUUID() / Math.random().toString(36) can give *)
GeneratedTokens == {"t1", "t2"}

(* the outcomes of emailService.sendPasswordResetEmail *)
EmailOutcomes == {"sent", "throws"}

IdleForgot ==
    [pc |-> "idle", via |-> "service", email |-> "", userFound |-> FALSE,
     token |-> "", stored |-> FALSE, status |-> 0, success |-> FALSE, message |-> ""]

(* the body both branches of the route answer with *)
ForgotGenericMessage ==
    "If your email is registered, you will receive a password reset link."

(* the request ends: the service resolves (200) or rejects (500); the route *)
(* answers the generic 200 or, from its catch, ApiError 400                 *)
ForgotSucceeds(r) ==
    forgotReq' = [forgotReq EXCEPT ![r].pc = "done", ![r].status = 200,
                                   ![r].success = TRUE,
                                   ![r].message = IF forgotReq[r].via = "route"
                                                  THEN ForgotGenericMessage ELSE ""]
ForgotFails(r) ==
    forgotReq' = [forgotReq EXCEPT
                    ![r].pc = "done",
                    ![r].status = IF forgotReq[r].via = "route" THEN 400 ELSE 500,
                    ![r].message = IF forgotReq[r].via = "route"
                                   THEN "Password reset request failed"
                                   ELSE "Internal error"]

(* prisma.user.findUnique({ where: { email } }); no user: the generic answer *)
ForgotFind(r) ==
    /\ forgotReq[r].pc = "idle"
    /\ \A k \in 1..(r - 1) : forgotReq[k].pc # "idle"
    /\ \E via \in ResetVias, email \in Emails :
          LET req == [IdleForgot EXCEPT !.via = via, !.email = email]
          IN  IF ~users[email].exists
              THEN forgotReq' = [forgotReq EXCEPT ![r] =
                      [req EXCEPT !.pc = "done", !.status = 200, !.success = TRUE,
                                  !.message = IF via = "route"
                                              THEN ForgotGenericMessage ELSE ""]]
              ELSE forgotReq' = [forgotReq EXCEPT ![r] =
                      [req EXCEPT !.pc = "create", !.userFound = TRUE]]
    /\ UNCHANGED <<now, users, verificationTokens, resetReq, gateVars, sessVars, authVars,
                   refreshReq, loginCall, logoutCall, axiosReq, extVars>>

(* the token is generated and prisma.verificationToken.create stores it with *)
(* a one-hour expiry; token is @unique, so a value already stored is rejected *)
ForgotCreate(r) ==
    /\ forgotReq[r].pc = "create"
    /\ \E token \in GeneratedTokens :
          IF FindToken(verificationTokens, token) # {}
          THEN /\ ForgotFails(r)
               /\ UNCHANGED verificationTokens
          ELSE /\ verificationTokens' = verificationTokens \cup
                      {[identifier |-> forgotReq[r].email, token |-> token,
                        expires |-> now + RESET_TOKEN_TTL_MS]}
               /\ IF forgotReq[r].via = "route"
                  THEN forgotReq' = [forgotReq EXCEPT ![r].pc = "send", ![r].token = token,
                                                      ![r].stored = TRUE]
                  ELSE forgotReq' = [forgotReq EXCEPT ![r].pc = "done", ![r].token = token,
                                                      ![r].stored = TRUE,
                                                      ![r].status = 200,
                                                      ![r].success = TRUE]
    /\ UNCHANGED <<now, users, resetReq, gateVars, sessVars, authVars,
                   refreshReq, loginCall, logoutCall, axiosReq, extVars>>

(* the route awaits emailService.sendPasswordResetEmail(email, resetToken) *)
ForgotSend(r) ==
    /\ forgotReq[r].pc = "send"
    /\ \E outcome \in EmailOutcomes :
          IF outcome = "sent" THEN ForgotSucceeds(r) ELSE ForgotFails(r)
    /\ UNCHANGED <<now, users, verificationTokens, resetReq, gateVars, sessVars, authVars,
                   refreshReq, loginCall, logoutCall, axiosReq, extVars>>

(* more than the lifetime of a token passes *)
ForgotTick ==
    /\ \E d \in ForgotTickSteps : now + d <= ForgotMaxTime /\ now' = now + d
    /\ UNCHANGED <<gateVars, sessVars, users, resetVars, authVars, callVars>>

InitForgot ==
    /\ now = 0
    /\ localValidationCache = <<>>
    /\ vjtCall = NoCall
    /\ mwResponse = NoResponse
    /\ authCookie = NoCookie
    /\ refreshCookie = NoCookie
    /\ lastSessionRefreshTimestamp = 0
    /\ pendingSessionRefresh = NoPromise
    /\ sessCall = <<>>
    /\ users = InitUsers
    /\ verificationTokens = {}
    /\ resetReq = [r \in ResetReqs |-> IdleReset]
    /\ authReq = <<>>
    /\ forgotReq = [r \in ForgotReqs |-> IdleForgot]
    /\ refreshReq = <<>>
    /\ loginCall = <<>>
    /\ logoutCall = <<>>
    /\ axiosReq = <<>>
    /\ InitExt

NextForgot ==
    \/ \E r \in ForgotReqs : ForgotFind(r)
    \/ \E r \in ForgotReqs : ForgotCreate(r)
    \/ \E r \in ForgotReqs : ForgotSend(r)
    \/ \E r \in ForgotResets : ResetFind(r)
    \/ \E r \in ForgotResets : ResetCheckExpiry(r)
    \/ \E r \in ForgotResets : ResetDeleteExpired(r)
    \/ \E r \in ForgotResets : ResetFindUser(r)
    \/ \E r \in ForgotResets : ResetUpdate(r)
    \/ \E r \in ForgotResets : ResetDelete(r)
    \/ ForgotTick

SpecForgot == InitForgot /\ [][NextForgot]_vars

(* the stored tokens of an identifier that have not expired *)
UnexpiredTokensOf(email) ==
    {rec \in verificationTokens : rec.identifier = email /\ ~(rec.expires < now)}

(* C11 (as claimed): after any sequence of password-reset requests and *)
(* resetPassword calls the store holds at most one unexpired           *)
(* VerificationToken per identifier.                                   *)
C11_OneUnexpiredTokenPerIdentifier ==
    \A email \in Emails : Cardinality(UnexpiredTokensOf(email)) <= 1

ForgotDone(r) == forgotReq[r].pc = "done"

(* C12 (as claimed): the response to a password-reset request (status and  *)
(* body) is the same whether or not the email belongs to a principal, in  *)
(* every outcome of the lookup, the token storage and the email dispatch. *)
C12_ForgotResponseIndependentOfPrincipal ==
    \A r1, r2 \in ForgotReqs :
        (/\ ForgotDone(r1) /\ ForgotDone(r2)
         /\ forgotReq[r1].via = "route" /\ forgotReq[r2].via = "route"
         /\ forgotReq[r1].userFound /\ ~forgotReq[r2].userFound)
        => /\ forgotReq[r1].status = forgotReq[r2].status
           /\ forgotReq[r1].success = forgotReq[r2].success
           /\ forgotReq[r1].message = forgotReq[r2].message

-----------------------------------------------------------------------------
(* Server-side refresh: AuthService.refreshToken and POST /auth/refresh-token *)

MaxRefreshReqs == 2        \* the refresh requests of a run
RefreshReqs == 1..MaxRefreshReqs

UserIds == {"u1", "u2"}
Roles == {"ADMIN", "NODE_OFFICER", "USER"}

(* a token of the codec: the claims it was signed with *)
NoToken ==
    [issued |-> FALSE, userId |-> Absent, id |-> Absent, email |-> Absent, role |-> Absent]
SignedToken(userId, id, email, role) ==
    [issued |-> TRUE, userId |-> userId, id |-> id, email |-> email, role |-> role]

(* the refresh tokens a request presents: none, one that does not verify *)
(* (bad signature or expired), or one signed by generateRefreshToken     *)
PresentedTokens ==
    {[present |-> FALSE, verifies |-> FALSE, token |-> NoToken]}
    \cup {[present |-> TRUE, verifies |-> FALSE,
           token |-> SignedToken("u1", Absent, "a@x.com", "USER")]}
    \cup {[present |-> TRUE, verifies |-> TRUE,
           token |-> SignedToken(u, Absent, u \o "@x.com", role)] :
              u \in UserIds, role \in Roles}

(* utils/jwt generateRefreshToken({ userId, email, role }) *)
generateRefreshToken(payload) ==
    SignedToken(payload.userId, Absent, payload.email, payload.role)

(* the route's generateToken({ userId, email, role }) *)
generateToken(payload) ==
    SignedToken(payload.userId, Absent, payload.email, payload.role)

(* the service's generateToken(tokenPayload), tokenPayload = { id, role } *)
generateTokenFromTokenPayload(tokenPayload) ==
    SignedToken(Absent, tokenPayload.id, Absent, tokenPayload.role)

RefreshResult(status, success, message, accessToken, refreshToken) ==
    [status |-> status, success |-> success, message |-> message,
     accessToken |-> accessToken, refreshToken |-> refreshToken]

(* AuthService.refreshToken(refreshToken): what it returns to its caller *)
ServiceRefreshToken(presented) ==
    IF presented.present /\ presented.verifies
    THEN LET jwtPayload == presented.token
             tokenPayload == [id |-> jwtPayload.userId, role |-> jwtPayload.role]
             accessToken == generateTokenFromTokenPayload(tokenPayload)
             newRefreshToken == generateRefreshToken(jwtPayload)
         IN  RefreshResult(200, TRUE, "", accessToken, NoToken)
    ELSE RefreshResult(200, FALSE, "Refresh token failed", NoToken, NoToken)

(* POST /auth/refresh-token: the response body *)
RouteRefreshToken(presented) ==
    IF ~presented.present
    THEN RefreshResult(401, FALSE, "Invalid refresh token", NoToken, NoToken)
    ELSE IF ~presented.verifies
    THEN RefreshResult(401, FALSE, "Invalid refresh token", NoToken, NoToken)
    ELSE LET decoded == presented.token
         IN  RefreshResult(200, TRUE, "Token refreshed",
                           generateToken(decoded), generateRefreshToken(decoded))

IdleRefresh ==
    [pc |-> "idle", via |-> "service",
     presented |-> [present |-> FALSE, verifies |-> FALSE, token |-> NoToken],
     result |-> RefreshResult(0, FALSE, "", NoToken, NoToken)]

(* one refresh request, through the service or through the route *)
RefreshRequest(r) ==
    /\ refreshReq[r].pc = "idle"
    /\ \A k \in 1..(r - 1) : refreshReq[k].pc # "idle"
    /\ \E via \in ResetVias, presented \in PresentedTokens :
          refreshReq' = [refreshReq EXCEPT ![r] =
              [pc |-> "done", via |-> via, presented |-> presented,
               result |-> IF via = "service" THEN ServiceRefreshToken(presented)
                          ELSE RouteRefreshToken(presented)]]
    /\ UNCHANGED <<now, users, resetVars, gateVars, sessVars, authVars,
                   forgotReq, loginCall, logoutCall, axiosReq, extVars>>

InitRefresh ==
    /\ now = 0
    /\ localValidationCache = <<>>
    /\ vjtCall = NoCall
    /\ mwResponse = NoResponse
    /\ authCookie = NoCookie
    /\ refreshCookie = NoCookie
    /\ lastSessionRefreshTimestamp = 0
    /\ pendingSessionRefresh = NoPromise
    /\ sessCall = <<>>
    /\ users = <<>>
    /\ verificationTokens = {}
    /\ resetReq = <<>>
    /\ authReq = <<>>
    /\ forgotReq = <<>>
    /\ refreshReq = [r \in RefreshReqs |-> IdleRefresh]
    /\ loginCall = <<>>
    /\ logoutCall = <<>>
    /\ axiosReq = <<>>
    /\ InitExt

NextRefresh == \E r \in RefreshReqs : RefreshRequest(r)

SpecRefresh == InitRefresh /\ [][NextRefresh]_vars

(* the token carries the userId, email and role of the presented token *)
CarriesClaimsOf(token, presented) ==
    /\ token.issued
    /\ token.userId = presented.token.userId
    /\ token.email = presented.token.email
    /\ token.role = presented.token.role

(* C13 (as claimed): given a refresh token that verifies, the refresh    *)
(* operation hands back a new access token and a new refresh token, each *)
(* carrying the userId, email and role of the presented token; given one *)
(* that does not verify, it issues no token.                             *)
C13_RefreshHandsBackPair ==
    \A r \in RefreshReqs :
        refreshReq[r].pc = "done"
        => IF refreshReq[r].presented.present /\ refreshReq[r].presented.verifies
           THEN /\ CarriesClaimsOf(refreshReq[r].result.accessToken, refreshReq[r].presented)
                /\ CarriesClaimsOf(refreshReq[r].result.refreshToken, refreshReq[r].presented)
           ELSE /\ refreshReq[r].result.accessToken = NoToken
                /\ refreshReq[r].result.refreshToken = NoToken

-----------------------------------------------------------------------------
(* Auth client: authClient.login with its delayed cookie verifications, and *)
(* authClient.logout                                                        *)

MaxLogins == 2             \* the login calls of a run
MaxLogouts == 2            \* the logout calls of a run
Logins == 1..MaxLogins
Logouts == 1..MaxLogouts

(* the access tokens a login response carries *)
LoginAccessTokens == {TokUser, TokAdminNoExp}

(* the outcomes of axios.post("/api/auth/login"): the request fails, the  *)
(* response lacks a token, or it carries both tokens and its Set-Cookie   *)
(* headers were or were not stored by the browser                         *)
LoginOutcomes == {"fails", "missing-tokens", "ok-cookies-set", "ok-cookies-not-set"}

(* the outcomes of axios.post("/api/auth/logout"): the request fails, or the *)
(* response arrives and its Set-Cookie headers clear the cookies or not      *)
LogoutOutcomes == {"fails", "ok", "ok-cookies-cleared"}

IdleLogin ==
    [pc |-> "idle", accessToken |-> NoCookie, refreshToken |-> NoCookie,
     timer100 |-> FALSE, timer1000 |-> FALSE, loggedOut |-> FALSE]

IdleLogout ==
    [pc |-> "idle", absentAtPost |-> FALSE, threw |-> FALSE, absentAtReturn |-> FALSE]

(* verifyCookies() of a login call: a cookie that getCookie does not find *)
(* is set from the tokens of the login response                           *)
verifyCookies(auth, refresh, call) ==
    [auth |-> IF ~TokenTruthy(auth) /\ TokenTruthy(call.accessToken)
              THEN call.accessToken ELSE auth,
     refresh |-> IF ~TokenTruthy(refresh) /\ TokenTruthy(call.refreshToken)
                 THEN call.refreshToken ELSE refresh]

(* the application makes its login and logout calls one after the other *)
NoCallInFlight ==
    /\ \A k \in Logins : loginCall[k].pc # "posting"
    /\ \A j \in Logouts : logoutCall[j].pc # "posting"

(* login(email, password): up to await axios.post *)
LoginPost(k) ==
    /\ loginCall[k].pc = "idle"
    /\ \A i \in 1..(k - 1) : loginCall[i].pc # "idle"
    /\ NoCallInFlight
    /\ loginCall' = [loginCall EXCEPT ![k].pc = "posting"]
    /\ UNCHANGED <<now, authCookie, refreshCookie, lastSessionRefreshTimestamp,
                   pendingSessionRefresh, sessCall, gateVars, users, resetVars, authVars,
                   forgotReq, refreshReq, logoutCall, axiosReq, extVars>>

(* the login response arrives: the session is built, verifyCookies() runs *)
(* once and is scheduled again after 100 ms and after 1000 ms             *)
LoginResponse(k) ==
    /\ loginCall[k].pc = "posting"
    /\ \E outcome \in LoginOutcomes, access \in LoginAccessTokens :
          IF outcome \in {"fails", "missing-tokens"}
          THEN /\ loginCall' = [loginCall EXCEPT ![k].pc = "failed"]
               /\ UNCHANGED <<authCookie, refreshCookie>>
          ELSE LET call == [loginCall[k] EXCEPT !.accessToken = access,
                                                !.refreshToken = TokRefresh]
                   auth == IF outcome = "ok-cookies-set" THEN access ELSE authCookie
                   refresh == IF outcome = "ok-cookies-set" THEN TokRefresh
                              ELSE refreshCookie
                   verified == verifyCookies(auth, refresh, call)
               IN  /\ authCookie' = verified.auth
                   /\ refreshCookie' = verified.refresh
                   /\ loginCall' = [loginCall EXCEPT ![k] =
                          [call EXCEPT !.pc = "returned", !.timer100 = TRUE,
                                       !.timer1000 = TRUE, !.loggedOut = FALSE]]
    /\ UNCHANGED <<now, lastSessionRefreshTimestamp, pendingSessionRefresh, sessCall,
                   gateVars, users, resetVars, authVars,
                   forgotReq, refreshReq, logoutCall, axiosReq, extVars>>

(* setTimeout(verifyCookies, 100) fires *)
LoginTimer100(k) ==
    /\ loginCall[k].timer100
    /\ LET verified == verifyCookies(authCookie, refreshCookie, loginCall[k])
       IN  /\ authCookie' = verified.auth
           /\ refreshCookie' = verified.refresh
    /\ loginCall' = [loginCall EXCEPT ![k].timer100 = FALSE]
    /\ UNCHANGED <<now, lastSessionRefreshTimestamp, pendingSessionRefresh, sessCall,
                   gateVars, users, resetVars, authVars,
                   forgotReq, refreshReq, logoutCall, axiosReq, extVars>>

(* the 1000 ms timer fires: verifyCookies() if the auth cookie is not found *)
LoginTimer1000(k) ==
    /\ loginCall[k].timer1000
    /\ ~loginCall[k].timer100
    /\ LET verified == IF ~TokenTruthy(authCookie)
                       THEN verifyCookies(authCookie, refreshCookie, loginCall[k])
                       ELSE [auth |-> authCookie, refresh |-> refreshCookie]
       IN  /\ authCookie' = verified.auth
           /\ refreshCookie' = verified.refresh
    /\ loginCall' = [loginCall EXCEPT ![k].timer1000 = FALSE]
    /\ UNCHANGED <<now, lastSessionRefreshTimestamp, pendingSessionRefresh, sessCall,
                   gateVars, users, resetVars, authVars,
                   forgotReq, refreshReq, logoutCall, axiosReq, extVars>>

(* try { await axios.post("/api/auth/logout") } catch (error) { console.error } *)
LogoutCatches(outcome) == TRUE

(* logout(): both cookies are deleted, then the server call is made *)
LogoutStart(j) ==
    /\ logoutCall[j].pc = "idle"
    /\ \A i \in 1..(j - 1) : logoutCall[i].pc # "idle"
    /\ NoCallInFlight
    /\ authCookie' = NoCookie
    /\ refreshCookie' = NoCookie
    /\ logoutCall' = [logoutCall EXCEPT ![j].pc = "posting",
                         ![j].absentAtPost = authCookie' = NoCookie /\ refreshCookie' = NoCookie]
    /\ loginCall' = [k \in Logins |->
                       IF loginCall[k].pc = "returned"
                       THEN [loginCall[k] EXCEPT !.loggedOut = TRUE]
                       ELSE loginCall[k]]
    /\ UNCHANGED <<now, lastSessionRefreshTimestamp, pendingSessionRefresh, sessCall,
                   gateVars, users, resetVars, authVars,
                   forgotReq, refreshReq, axiosReq, extVars>>

(* the server call settles and logout() returns *)
LogoutSettles(j) ==
    /\ logoutCall[j].pc = "posting"
    /\ \E outcome \in LogoutOutcomes :
          /\ authCookie' = IF outcome = "ok-cookies-cleared" THEN NoCookie ELSE authCookie
          /\ refreshCookie' =
                IF outcome = "ok-cookies-cleared" THEN NoCookie ELSE refreshCookie
          /\ logoutCall' = [logoutCall EXCEPT
                ![j].pc = "done",
                ![j].threw = outcome = "fails" /\ ~LogoutCatches(outcome),
                ![j].absentAtReturn = ~TokenTruthy(authCookie') /\ ~TokenTruthy(refreshCookie')]
    /\ UNCHANGED <<now, lastSessionRefreshTimestamp, pendingSessionRefresh, sessCall,
                   gateVars, users, resetVars, authVars,
                   forgotReq, refreshReq, loginCall, axiosReq, extVars>>

InitClient ==
    /\ now = 0
    /\ localValidationCache = <<>>
    /\ vjtCall = NoCall
    /\ mwResponse = NoResponse
    /\ authCookie = NoCookie
    /\ refreshCookie = NoCookie
    /\ lastSessionRefreshTimestamp = 0
    /\ pendingSessionRefresh = NoPromise
    /\ sessCall = <<>>
    /\ users = <<>>
    /\ verificationTokens = {}
    /\ resetReq = <<>>
    /\ authReq = <<>>
    /\ forgotReq = <<>>
    /\ refreshReq = <<>>
    /\ loginCall = [k \in Logins |-> IdleLogin]
    /\ logoutCall = [j \in Logouts |-> IdleLogout]
    /\ axiosReq = <<>>
    /\ InitExt

NextClient ==
    \/ \E k \in Logins : LoginPost(k)
    \/ \E k \in Logins : LoginResponse(k)
    \/ \E k \in Logins : LoginTimer100(k)
    \/ \E k \in Logins : LoginTimer1000(k)
    \/ \E j \in Logouts : LogoutStart(j)
    \/ \E j \in Logouts : LogoutSettles(j)

SpecClient == InitClient /\ [][NextClient]_vars

(* C14 (as claimed): logout() removes both cookies before it contacts the *)
(* server, completes without throwing whether the server call succeeds or *)
(* fails, and when it returns both cookies are absent.                    *)
C14_LogoutClearsCookiesAndNeverThrows ==
    \A j \in Logouts :
        /\ logoutCall[j].pc \in {"posting", "done"} => logoutCall[j].absentAtPost
        /\ logoutCall[j].pc = "done"
           => (~logoutCall[j].threw /\ logoutCall[j].absentAtReturn)

(* a pending timer of login call k fires in this step *)
LoginTimerFires(k) ==
    \/ loginCall[k].timer100 /\ ~loginCall'[k].timer100
    \/ loginCall[k].timer1000 /\ ~loginCall'[k].timer1000

(* C20 (as claimed): once logout() has deleted the cookies, no pending step *)
(* of an earlier login() call (its cookie verifications after about 100 ms *)
(* and 1000 ms) writes either cookie again.                                *)
C20_NoCookieWriteAfterLogout ==
    [][\A k \in Logins :
          (loginCall[k].loggedOut /\ LoginTimerFires(k))
          => (authCookie' = authCookie /\ refreshCookie' = refreshCookie)]_vars

-----------------------------------------------------------------------------
(* authAxios request interceptor, isTokenExpired and authClient.refreshToken *)

MaxAxiosReqs == 2          \* the outgoing authAxios requests of a run
AxiosReqs == 1..MaxAxiosReqs

(* the access token a refresh response carries *)
TokFresh ==
    Jwt("h.fresh.s", "u1", Absent, "o@x.com", StrRole("NODE_OFFICER"), TRUE, 90000)

(* the outcomes of axios.post("/api/auth/refresh"): it throws, or the *)
(* response has no data.accessToken, or it has one                    *)
RefreshOutcomes == {"throws", "no-token", "token"}

(* mutant of isTokenExpired: a token without exp counts as expired *)
isTokenExpired_NoExpExpired(tok, t) ==
    IF ~tok.decodable THEN TRUE
    ELSE IF ~tok.hasExp THEN TRUE
    ELSE tok.exp * 1000 < t

(* isTokenExpired(token): decoded.exp < Date.now() / 1000; true when the *)
(* decode throws, false (undefined < x) when there is no exp claim       *)
isTokenExpired(tok, t) ==
    IF ~tok.decodable THEN TRUE
    ELSE IF ~tok.hasExp THEN FALSE
    ELSE tok.exp * 1000 < t

(* mutant of RefreshedToken: the old token is kept when the refresh fails *)
RefreshedToken_KeepsOld(token, yield) == IF TokenTruthy(yield) THEN yield ELSE token

(* token = await authClient.refreshToken() *)
RefreshedToken(token, yield) == yield

(* if (token) config.headers.Authorization = `Bearer ${token}` *)
AuthorizationHeader(token) ==
    IF TokenTruthy(token) THEN "Bearer " \o token.raw ELSE Absent

IdleAxios ==
    [pc |-> "idle", token |-> NoCookie, at |-> 0, expired |-> FALSE, refreshCalls |-> 0,
     posts |-> 0, yield |-> NoCookie, authorization |-> Absent]

(* the interceptor runs up to its first network wait: without an expired *)
(* token it returns the config; refreshToken() returns null at once when *)
(* there is no refresh_token cookie, else it posts to /api/auth/refresh  *)
InterceptRequest(r) ==
    /\ axiosReq[r].pc = "idle"
    /\ \A k \in 1..(r - 1) : axiosReq[k].pc # "idle"
    /\ LET token == authCookie
           expired == TokenTruthy(token) /\ isTokenExpired(token, now)
           req == [IdleAxios EXCEPT !.token = token, !.at = now, !.expired = expired]
       IN  IF ~expired
           THEN axiosReq' = [axiosReq EXCEPT ![r] =
                   [req EXCEPT !.pc = "done", !.authorization = AuthorizationHeader(token)]]
           ELSE IF ~TokenTruthy(refreshCookie)
           THEN axiosReq' = [axiosReq EXCEPT ![r] =
                   [req EXCEPT !.pc = "done", !.refreshCalls = 1,
                               !.authorization =
                                   AuthorizationHeader(RefreshedToken(token, NoCookie))]]
           ELSE axiosReq' = [axiosReq EXCEPT ![r] =
                   [req EXCEPT !.pc = "refreshing", !.refreshCalls = 1, !.posts = 1]]
    /\ UNCHANGED <<now, sessVars, gateVars, users, resetVars, authVars,
                   forgotReq, refreshReq, loginCall, logoutCall, extVars>>

(* the refresh post settles, refreshToken() returns and the interceptor *)
(* returns the config                                                   *)
InterceptRefreshSettles(r) ==
    /\ axiosReq[r].pc = "refreshing"
    /\ \E outcome \in RefreshOutcomes :
          LET yield == IF outcome = "token" THEN TokFresh ELSE NoCookie
          IN  axiosReq' = [axiosReq EXCEPT
                 ![r].pc = "done",
                 ![r].yield = yield,
                 ![r].authorization =
                     AuthorizationHeader(RefreshedToken(axiosReq[r].token, yield))]
    /\ UNCHANGED <<now, sessVars, gateVars, users, resetVars, authVars,
                   forgotReq, refreshReq, loginCall, logoutCall, extVars>>

InitIntercept ==
    /\ now = SessStart
    /\ localValidationCache = <<>>
    /\ vjtCall = NoCall
    /\ mwResponse = NoResponse
    /\ authCookie \in SessTokens \cup {TokAdminNoExp, NoCookie}
    /\ refreshCookie = IF authCookie = NoCookie THEN NoCookie ELSE TokRefresh
    /\ lastSessionRefreshTimestamp = 0
    /\ pendingSessionRefresh = NoPromise
    /\ sessCall = <<>>
    /\ users = <<>>
    /\ verificationTokens = {}
    /\ resetReq = <<>>
    /\ authReq = <<>>
    /\ forgotReq = <<>>
    /\ refreshReq = <<>>
    /\ loginCall = <<>>
    /\ logoutCall = <<>>
    /\ axiosReq = [r \in AxiosReqs |-> IdleAxios]
    /\ InitExt

NextIntercept ==
    \/ \E r \in AxiosReqs : InterceptRequest(r)
    \/ \E r \in AxiosReqs : InterceptRefreshSettles(r)
    \/ SetCookies
    \/ ClearCookies
    \/ AuthCookieExpires

SpecIntercept == InitIntercept /\ [][NextIntercept]_vars

(* C15: for every outgoing request whose auth_token cookie holds an expired *)
(* token, refreshToken() is invoked exactly once; when it yields a token,   *)
(* that token and never the expired one is in the Authorization header;     *)
(* when it yields null the request has no Authorization header; there is    *)
(* no retry (at most one refresh post).                                     *)
C15_ExpiredTokenRefreshedOnce ==
    \A r \in AxiosReqs :
        (axiosReq[r].pc = "done" /\ ExpiredAt(axiosReq[r].token, axiosReq[r].at))
        => /\ axiosReq[r].refreshCalls = 1
           /\ axiosReq[r].posts <= 1
           /\ TokenTruthy(axiosReq[r].yield)
              => /\ axiosReq[r].authorization = "Bearer " \o axiosReq[r].yield.raw
                 /\ axiosReq[r].authorization # "Bearer " \o axiosReq[r].token.raw
           /\ ~TokenTruthy(axiosReq[r].yield) => axiosReq[r].authorization = Absent

C15_Witness ==
    \E r1, r2 \in AxiosReqs :
        /\ axiosReq[r1].pc = "done" /\ axiosReq[r1].token = TokOfficerShort
        /\ axiosReq[r1].yield = TokFresh
        /\ axiosReq[r1].authorization = "Bearer h.fresh.s"
        /\ axiosReq[r2].pc = "done" /\ axiosReq[r2].token = TokOfficerShort
        /\ axiosReq[r2].posts = 1 /\ axiosReq[r2].yield = NoCookie
        /\ axiosReq[r2].authorization = Absent

-----------------------------------------------------------------------------
(* Role normalisation of validateJwtToken *)

(* a decodable, unexpired token with a user id and the given role claim *)
RoleToken(raw, role) == Jwt(raw, "u5", Absent, "r@x.com", role, TRUE, 900)

TokRoleLowerAdmin == RoleToken("h.role-admin.s", StrRole("admin"))
TokRoleMixedOfficer == RoleToken("h.role-Node_Officer.s", StrRole("Node_Officer"))
TokRoleSuperuser == RoleToken("h.role-superuser.s", StrRole("superuser"))
TokRoleDigitString == RoleToken("h.role-0-string.s", StrRole("0"))
TokRoleZero == RoleToken("h.role-0-number.s", NumRole(0))
TokRoleOne == RoleToken("h.role-1-number.s", NumRole(1))
TokRoleAbsent == RoleToken("h.role-absent.s", NoRole)

(* the role claims of the tokens validateJwtToken is handed: every case of *)
(* a canonical name, other strings, numbers, and no role claim            *)
RoleTokens ==
    {TokRoleLowerAdmin, TokRoleMixedOfficer, TokRoleSuperuser, TokRoleDigitString,
     TokRoleZero, TokRoleOne, TokRoleAbsent}

(* a caller validates a token; only the role claim varies *)
ValidateRoleClaim ==
    /\ \E tok \in RoleTokens :
          LET v == validateJwtToken(tok, localValidationCache, now)
          IN  /\ localValidationCache' = v.cache
              /\ vjtCall' = [token |-> tok, at |-> now, result |-> v.result]
    /\ UNCHANGED <<now, mwResponse, sessVars, users, resetVars, authVars, callVars>>

NextRoles == ValidateRoleClaim

SpecRoles == InitGate /\ [][NextRoles]_vars

(* lib/auth/constants: the values of UserRole *)
CanonicalRoles == {"ADMIN", "NODE_OFFICER", "USER"}

(* the role claim is a string equal to a canonical role name, case ignored *)
MatchesCanonicalRole(role) == role.t = "str" /\ ToUpperCase(role.s) \in CanonicalRoles

-----------------------------------------------------------------------------
(* Network calls that may never be answered: the profile fetch of the     *)
(* gatekeeper and the /api/auth/check probe of getSession                 *)

MaxGateCalls == 2          \* the gatekeeper invocations of a run
ProbeStart == 100000       \* Date.now() of the run (ms)
GateCalls == 1..MaxGateCalls

(* the requests of these runs *)
ProbePaths == {"/about", "/profile", "/api/users"}
ProbeCookies == {NoCookie, TokOfficerShort, TokUser}

IdleGate == [pc |-> "idle", path |-> "", cookie |-> NoCookie, response |-> NoResponse]

(* middleware(request) up to the await of fetch in hasCompletedOnboarding, *)
(* or to its return when no profile is fetched                            *)
GateStart(g) ==
    /\ mwCall[g].pc = "idle"
    /\ \E path \in ProbePaths, cookie \in ProbeCookies :
          LET m == middleware(path, cookie, "none", localValidationCache, now)
          IN  /\ localValidationCache' = m.cache
              /\ mwCall' = [mwCall EXCEPT ![g] =
                    IF IssuesProfileFetch(path, cookie, localValidationCache, now)
                    THEN [pc |-> "profile-fetch", path |-> path, cookie |-> cookie,
                          response |-> NoResponse]
                    ELSE [pc |-> "done", path |-> path, cookie |-> cookie,
                          response |-> m.response]]
    /\ UNCHANGED <<now, vjtCall, mwResponse, sessVars, users, resetVars, authVars,
                   forgotReq, refreshReq, loginCall, logoutCall, axiosReq,
                   restVars>>

(* the profile fetch settles (answers or throws) and middleware returns; no *)
(* timer and no AbortSignal is attached to this fetch                      *)
GateProfileSettles(g) ==
    /\ mwCall[g].pc = "profile-fetch"
    /\ \E profile \in ProfileOutcomes :
          mwCall' = [mwCall EXCEPT
             ![g].pc = "done",
             ![g].response = middleware(mwCall[g].path, mwCall[g].cookie, profile,
                                        localValidationCache, now).response]
    /\ UNCHANGED <<now, gateVars, sessVars, users, resetVars, authVars,
                   forgotReq, refreshReq, loginCall, logoutCall, axiosReq,
                   restVars>>

(* setTimeout(() => controller.abort(), 3000) fires while the probe is    *)
(* outstanding: fetch rejects and the catch falls back to the token       *)
ProbeAborts(c) == CheckSettles(c, "throws")

InitTimeouts ==
    /\ now = ProbeStart
    /\ localValidationCache = <<>>
    /\ vjtCall = NoCall
    /\ mwResponse = NoResponse
    /\ authCookie \in {TokUser, TokGarbage, NoCookie}
    /\ refreshCookie = IF authCookie = NoCookie THEN NoCookie ELSE TokRefresh
    /\ lastSessionRefreshTimestamp = 0
    /\ pendingSessionRefresh = NoPromise
    /\ sessCall = [c \in Callers |-> IdleCall]
    /\ users = <<>>
    /\ verificationTokens = {}
    /\ resetReq = <<>>
    /\ authReq = <<>>
    /\ forgotReq = <<>>
    /\ refreshReq = <<>>
    /\ loginCall = <<>>
    /\ logoutCall = <<>>
    /\ axiosReq = <<>>
    /\ mwCall = [g \in GateCalls |-> IdleGate]
    /\ verifyReq = <<>>
    /\ emailVerified = {}
    /\ form = <<>>
    /\ cacheOp = <<>>

NextTimeouts ==
    \/ \E g \in GateCalls : GateStart(g)
    \/ \E g \in GateCalls : GateProfileSettles(g)
    \/ \E c \in Callers : GetSessionCall(c)
    \/ \E c \in Callers : CheckCompletes(c)
    \/ \E c \in Callers : ProbeAborts(c)
    \/ \E c \in Callers : RefreshReturns(c)
    \/ \E c \in Callers : SharedReturns(c)

(* the timers and the continuations of settled promises run; the network  *)
(* owes no answer, and nobody owes a call                                 *)
SpecTimeouts ==
    /\ InitTimeouts
    /\ [][NextTimeouts]_vars
    /\ \A c \in Callers : WF_vars(ProbeAborts(c))
    /\ \A c \in Callers : WF_vars(RefreshReturns(c))
    /\ \A c \in Callers : WF_vars(SharedReturns(c))

(* every gatekeeper invocation that awaits the profile fetch returns *)
GateCallCompletes ==
    \A g \in GateCalls : (mwCall[g].pc = "profile-fetch") ~> (mwCall[g].pc = "done")

(* every getSession call that was made returns *)
SessionCallCompletes ==
    \A c \in Callers : (sessCall[c].pc # "idle") ~> Returned(c)

(* C21: every gatekeeper invocation and every getSession call eventually   *)
(* completes even if the profile fetch or the /api/auth/check probe never  *)
(* responds: the call is aborted after a bounded timeout and processing    *)
(* falls through.                                                          *)
C21_NetworkCallsNeverHang == GateCallCompletes /\ SessionCallCompletes

-----------------------------------------------------------------------------
(* The validation cache observed: what each access swept, found and shifted *)

CacheMaxTime == 300000     \* the clock of the cache runs stops here (ms)
CacheTickSteps == {150000}

(* the tokens of the eviction runs: six, one more than the cache holds *)
CacheTokens ==
    {TokEmpty, TokGarbage, TokOfficerShort, TokUser, TokAdminNoExp, TokNumRole}

(* the tokens of the expiry runs *)
SweepTokens == {TokGarbage, TokOfficerShort, TokUser, TokAdminNoExp}

NoCacheOp == [hit |-> FALSE, swept |-> 0, shifted |-> Absent]

(* validateJwtToken, with the effects of getCachedValidation (the entries  *)
(* its filter dropped, whether find returned an entry) and of             *)
(* cacheValidationResult (the token of the entry shift() removed) noted   *)
ValidateObserved(tokens) ==
    /\ \E tok \in tokens :
          LET looked == getCachedValidation(tok, localValidationCache, now)
              v == validateJwtToken(tok, localValidationCache, now)
          IN  /\ localValidationCache' = v.cache
              /\ vjtCall' = [token |-> tok, at |-> now, result |-> v.result]
              /\ cacheOp' =
                    [hit |-> looked.hit,
                     swept |-> Len(localValidationCache) - Len(looked.cache),
                     shifted |-> IF ~looked.hit /\ Len(looked.cache) >= MAX_CACHE_SIZE
                                 THEN Head(looked.cache).token.raw ELSE Absent]
    /\ UNCHANGED <<now, mwResponse, sessVars, users, resetVars, authVars,
                   forgotReq, refreshReq, loginCall, logoutCall, axiosReq,
                   mwCall, verifyReq, emailVerified, form>>

CacheTick ==
    /\ \E d \in CacheTickSteps : now + d <= CacheMaxTime /\ now' = now + d
    /\ UNCHANGED <<gateVars, sessVars, users, resetVars, authVars, callVars>>

InitCache ==
    /\ now = 0
    /\ localValidationCache = <<>>
    /\ vjtCall = NoCall
    /\ mwResponse = NoResponse
    /\ InitOther
    /\ mwCall = <<>>
    /\ verifyReq = <<>>
    /\ emailVerified = {}
    /\ form = <<>>
    /\ cacheOp = NoCacheOp

(* six tokens at one time: the cache fills and evicts *)
NextCache == ValidateObserved(CacheTokens)

SpecCache == InitCache /\ [][NextCache]_vars

(* four tokens while time passes: the entries age and are swept *)
NextSweep == ValidateObserved(SweepTokens) \/ CacheTick

SpecSweep == InitCache /\ [][NextSweep]_vars

(* the tokens of the entries of a cache *)
CachedTokens(cache) == {cache[i].token : i \in 1..Len(cache)}

(* no entry of the cache is 300 seconds old at time t *)
AllFresh(cache, t) == \A i \in 1..Len(cache) : t - cache[i].timestamp < CACHE_TTL_MS

(* C23: after any sequence of validateJwtToken calls the validation cache  *)
(* holds at most 5 entries; a call for a cached token leaves the cache as *)
(* it is (a read moves nothing), and an insertion into a full cache       *)
(* removes the entry inserted earliest and appends the new one (FIFO).    *)
C23_CacheFifoAtMostFive ==
    [][/\ Len(localValidationCache) <= 5
       /\ Len(localValidationCache') <= 5
       /\ AllFresh(localValidationCache, now)
          => /\ vjtCall'.token \in CachedTokens(localValidationCache)
                => localValidationCache' = localValidationCache
             /\ (vjtCall'.token \notin CachedTokens(localValidationCache)
                 /\ Len(localValidationCache) = 5)
                => /\ Len(localValidationCache') = 5
                   /\ SubSeq(localValidationCache', 1, 4) = Tail(localValidationCache)
                   /\ localValidationCache'[5].token = vjtCall'.token
             /\ (vjtCall'.token \notin CachedTokens(localValidationCache)
                 /\ Len(localValidationCache) < 5)
                => localValidationCache' =
                      Append(localValidationCache, localValidationCache'[Len(localValidationCache')])
      ]_vars

C23_Witness ==
    /\ Len(localValidationCache) = 5
    /\ cacheOp.shifted = TokUser.raw
    /\ TokUser \notin CachedTokens(localValidationCache)
    /\ localValidationCache[5].token = vjtCall.token
    /\ localValidationCache[1].token = TokGarbage
    /\ ~cacheOp.hit

(* C24: after every cache lookup performed at time now, each entry left in *)
(* the validation cache satisfies now - timestamp < 300 seconds, and the   *)
(* result a lookup returns was cached less than 300 seconds earlier.       *)
C24_NoStaleEntryAfterLookup ==
    vjtCall # NoCall
    => /\ \A i \in 1..Len(localValidationCache) :
             vjtCall.at - localValidationCache[i].timestamp < 300000
       /\ \E i \in 1..Len(localValidationCache) :
             /\ localValidationCache[i].token = vjtCall.token
             /\ localValidationCache[i].result = vjtCall.result
             /\ vjtCall.at - localValidationCache[i].timestamp < 300000

C24_Witness ==
    /\ vjtCall.at = 300000
    /\ vjtCall.token = TokUser
    /\ cacheOp.swept = 2
    /\ ~cacheOp.hit
    /\ Len(localValidationCache) = 2
    /\ localValidationCache[1].token = TokGarbage
    /\ localValidationCache[1].timestamp = 150000

(* the role a legacy numeric code stands for (Absent: not a legacy code) *)
LegacyRole(role) ==
    CASE (role.t = "str" /\ role.s = "0") \/ (role.t = "num" /\ role.n = 0) -> "ADMIN"
      [] (role.t = "str" /\ role.s = "1") \/ (role.t = "num" /\ role.n = 1) -> "NODE_OFFICER"
      [] (role.t = "str" /\ role.s = "2") \/ (role.t = "num" /\ role.n = 2) -> "USER"
      [] OTHER -> Absent

(* C25: role normalisation during token validation maps the legacy numeric *)
(* codes 0, 1 and 2 (as a string or as a number) to ADMIN, NODE_OFFICER    *)
(* and USER respectively.                                                  *)
C25_LegacyCodesNormalised ==
    (vjtCall # NoCall /\ LegacyRole(vjtCall.token.role) # Absent)
    => /\ vjtCall.result.isValid
       /\ vjtCall.result.role = LegacyRole(vjtCall.token.role)

-----------------------------------------------------------------------------
(* GET /auth/verify-email, next to the password-reset request flow *)

MaxVerifyReqs == 2         \* the verify-email requests of a run
VerifyReqs == 1..MaxVerifyReqs

IdleVerify ==
    [pc |-> "idle", token |-> "", identifier |-> "", status |-> 0, message |-> ""]

(* the request ends with ApiError 400: thrown as it is, or made by the catch *)
VerifyFails(v, message) ==
    verifyReq' = [verifyReq EXCEPT ![v].pc = "done", ![v].status = 400,
                                   ![v].message = message]

(* prisma.verificationToken.findFirst({ where: { token, expires: { gt: now } } }) *)
FindUnexpiredToken(store, token, t) ==
    {rec \in store : rec.token = token /\ rec.expires > t}

(* the start of the handler: the model VerificationToken has the fields  *)
(* identifier, token and expires only, so every unexpired row with the   *)
(* token is found, whatever flow wrote it                                 *)
VerifyFind(v) ==
    /\ verifyReq[v].pc = "idle"
    /\ \A k \in 1..(v - 1) : verifyReq[k].pc # "idle"
    /\ \E token \in ResetTokens :
          LET found == FindUnexpiredToken(verificationTokens, token, now)
          IN  IF found = {}
              THEN verifyReq' = [verifyReq EXCEPT ![v] =
                      [IdleVerify EXCEPT !.pc = "done", !.token = token, !.status = 400,
                                         !.message = "Invalid token"]]
              ELSE verifyReq' = [verifyReq EXCEPT ![v] =
                      [IdleVerify EXCEPT !.pc = "update", !.token = token,
                          !.identifier = (CHOOSE rec \in found : TRUE).identifier]]
    /\ UNCHANGED <<now, users, resetVars, gateVars, sessVars, authVars,
                   forgotReq, refreshReq, loginCall, logoutCall, axiosReq,
                   mwCall, emailVerified, form, cacheOp>>

(* prisma.user.update({ where: { email: identifier }, data: { emailVerified } }); *)
(* it rejects when no User row has the email                                      *)
VerifyUpdate(v) ==
    /\ verifyReq[v].pc = "update"
    /\ IF users[verifyReq[v].identifier].exists
       THEN /\ emailVerified' = emailVerified \cup {verifyReq[v].identifier}
            /\ verifyReq' = [verifyReq EXCEPT ![v].pc = "delete"]
       ELSE /\ VerifyFails(v, "Email verification failed")
            /\ UNCHANGED emailVerified
    /\ UNCHANGED <<now, users, resetVars, gateVars, sessVars, authVars,
                   forgotReq, refreshReq, loginCall, logoutCall, axiosReq,
                   mwCall, form, cacheOp>>

(* prisma.verificationToken.delete({ where: { token } }); it rejects when *)
(* the row is gone                                                        *)
VerifyDelete(v) ==
    /\ verifyReq[v].pc = "delete"
    /\ IF FindToken(verificationTokens, verifyReq[v].token) # {}
       THEN /\ verificationTokens' = DeleteToken(verificationTokens, verifyReq[v].token)
            /\ verifyReq' = [verifyReq EXCEPT ![v].pc = "done", ![v].status = 200,
                                 ![v].message = "Email verified successfully"]
       ELSE /\ VerifyFails(v, "Email verification failed")
            /\ UNCHANGED verificationTokens
    /\ UNCHANGED <<now, users, resetReq, gateVars, sessVars, authVars,
                   forgotReq, refreshReq, loginCall, logoutCall, axiosReq,
                   mwCall, emailVerified, form, cacheOp>>

InitVerify ==
    /\ now = 0
    /\ localValidationCache = <<>>
    /\ vjtCall = NoCall
    /\ mwResponse = NoResponse
    /\ authCookie = NoCookie
    /\ refreshCookie = NoCookie
    /\ lastSessionRefreshTimestamp = 0
    /\ pendingSessionRefresh = NoPromise
    /\ sessCall = <<>>
    /\ users = InitUsers
    /\ verificationTokens = {}
    /\ resetReq = <<>>
    /\ authReq = <<>>
    /\ forgotReq = [r \in ForgotReqs |-> IdleForgot]
    /\ refreshReq = <<>>
    /\ loginCall = <<>>
    /\ logoutCall = <<>>
    /\ axiosReq = <<>>
    /\ mwCall = <<>>
    /\ verifyReq = [v \in VerifyReqs |-> IdleVerify]
    /\ emailVerified = {}
    /\ form = <<>>
    /\ cacheOp = <<>>

NextVerify ==
    \/ \E r \in ForgotReqs : ForgotFind(r)
    \/ \E r \in ForgotReqs : ForgotCreate(r)
    \/ \E r \in ForgotReqs : ForgotSend(r)
    \/ \E v \in VerifyReqs : VerifyFind(v)
    \/ \E v \in VerifyReqs : VerifyUpdate(v)
    \/ \E v \in VerifyReqs : VerifyDelete(v)
    \/ ForgotTick

SpecVerify == InitVerify /\ [][NextVerify]_vars

(* C26: a VerificationToken created by the password-reset request flow is *)
(* accepted only by reset-password: presenting it to verify-email is      *)
(* rejected, marks no email as verified and leaves the token stored.      *)
(* (Every token of these runs was created by the password-reset flow.)    *)
C26_ResetTokenRejectedByVerifyEmail ==
    /\ \A v \in VerifyReqs : verifyReq[v].pc = "done" => verifyReq[v].status = 400
    /\ emailVerified = {}
    /\ \A r \in ForgotReqs :
          forgotReq[r].stored => FindToken(verificationTokens, forgotReq[r].token) # {}

-----------------------------------------------------------------------------
(* The role header of the gatekeeper *)

(* C28: whenever the gatekeeper sets the x-user-role header, its value is *)
(* one of ADMIN, NODE_OFFICER, USER, and it equals the role that          *)
(* validateJwtToken reports for the same token.                           *)
C28_RoleHeaderIsNormalised ==
    (Handled /\ mwResponse.xUserRole # Absent)
    => /\ mwResponse.xUserRole \in CanonicalRoles
       /\ \A i \in 1..Len(localValidationCache) :
             (/\ localValidationCache[i].token = mwResponse.cookie
              /\ localValidationCache[i].result.isValid)
             => localValidationCache[i].result.role = mwResponse.xUserRole

-----------------------------------------------------------------------------
(* Tokens without an exp claim, seen by the three expiry checks of the     *)
(* auth client: validateJwtToken, isTokenExpired (request interceptor) and *)
(* getSession                                                              *)

MaxNoExpCalls == 2         \* the getSession calls of these runs
MaxNoExpReqs == 1          \* the outgoing requests of these runs
NoExpCallers == 1..MaxNoExpCalls
NoExpReqs == 1..MaxNoExpReqs

TokNoExpNoId == Jwt("h.noexp-noid.s", Absent, Absent, "x@x.com", StrRole("USER"), FALSE, 0)

(* the auth_token cookies of these runs *)
NoExpCookies == {TokAdminNoExp, TokNoExpNoId, TokOfficerShort}

(* a caller (isAuthenticated, requireAuth) validates the auth_token cookie *)
ValidateAuthCookie ==
    /\ TokenTruthy(authCookie)
    /\ LET v == validateJwtToken(authCookie, localValidationCache, now)
       IN  /\ localValidationCache' = v.cache
           /\ vjtCall' = [token |-> authCookie, at |-> now, result |-> v.result]
    /\ UNCHANGED <<now, mwResponse, sessVars, users, resetVars, authVars, callVars>>

InitNoExp ==
    /\ now = SessStart
    /\ localValidationCache = <<>>
    /\ vjtCall = NoCall
    /\ mwResponse = NoResponse
    /\ authCookie \in NoExpCookies
    /\ refreshCookie = TokRefresh
    /\ lastSessionRefreshTimestamp = 0
    /\ pendingSessionRefresh = NoPromise
    /\ sessCall = [c \in NoExpCallers |-> IdleCall]
    /\ users = <<>>
    /\ verificationTokens = {}
    /\ resetReq = <<>>
    /\ authReq = <<>>
    /\ forgotReq = <<>>
    /\ refreshReq = <<>>
    /\ loginCall = <<>>
    /\ logoutCall = <<>>
    /\ axiosReq = [r \in NoExpReqs |-> IdleAxios]
    /\ InitExt

NextNoExp ==
    \/ ValidateAuthCookie
    \/ \E r \in NoExpReqs : InterceptRequest(r)
    \/ \E r \in NoExpReqs : InterceptRefreshSettles(r)
    \/ \E c \in NoExpCallers : GetSessionCall(c)
    \/ \E c \in NoExpCallers : CheckCompletes(c)
    \/ \E c \in NoExpCallers : RefreshReturns(c)
    \/ \E c \in NoExpCallers : SharedReturns(c)

SpecNoExp == InitNoExp /\ [][NextNoExp]_vars

(* a decodable token that carries no exp claim *)
NoExp(tok) == TokenTruthy(tok) /\ tok.decodable /\ ~tok.hasExp

(* validateJwtToken reports a token without exp valid, given a user id *)
NoExpValidates ==
    (vjtCall # NoCall /\ NoExp(vjtCall.token) /\ Truthy(ClaimedUserId(vjtCall.token)))
    => vjtCall.result.isValid

(* the interceptor attaches a token without exp and does not refresh *)
NoExpAttached ==
    \A r \in NoExpReqs :
        (axiosReq[r].pc # "idle" /\ NoExp(axiosReq[r].token))
        => /\ axiosReq[r].pc = "done"
           /\ axiosReq[r].refreshCalls = 0
           /\ axiosReq[r].posts = 0
           /\ axiosReq[r].authorization = "Bearer " \o axiosReq[r].token.raw

(* the getSession call read a token without exp and did not join a refresh *)
(* that was already pending                                                *)
ReadNoExp(c) ==
    /\ Returned(c)
    /\ sessCall[c].path \in {"shortcut", "refresh"}
    /\ NoExp(sessCall[c].token)

(* C29 (as claimed): a decodable token without exp is treated as unexpired *)
(* by every expiry check: validateJwtToken reports it valid (given a user  *)
(* id), isTokenExpired reports false so the interceptor attaches it        *)
(* without refreshing, and getSession builds a session from it.            *)
C29_NoExpTreatedAsUnexpired ==
    /\ NoExpValidates
    /\ NoExpAttached
    /\ \A c \in NoExpCallers :
          ReadNoExp(c)
          => /\ sessCall[c].value.kind = "session"
             /\ sessCall[c].value.accessToken = sessCall[c].token.raw

(* C29 (amended): ... and getSession, unless it joins a refresh already     *)
(* pending, builds a session from it given a user id, except that a server *)
(* check that is answered decides the result (the server's session, or    *)
(* null when the server reports not authenticated).                        *)
C29_NoExpUnexpiredUnlessServerDenies ==
    /\ NoExpValidates
    /\ NoExpAttached
    /\ \A c \in NoExpCallers :
          (ReadNoExp(c) /\ Truthy(ClaimedUserId(sessCall[c].token)))
          => /\ ~sessCall[c].bad
             /\ (sessCall[c].fetches = 0 \/ sessCall[c].checkFailed)
                => /\ sessCall[c].value.kind = "session"
                   /\ sessCall[c].value.source \in {"shortcut", "client"}
                   /\ sessCall[c].value.accessToken = sessCall[c].token.raw
             /\ (sessCall[c].fetches = 1 /\ ~sessCall[c].checkFailed)
                => \/ sessCall[c].value = NullSession
                   \/ /\ sessCall[c].value.kind = "session"
                      /\ sessCall[c].value.source = "server"
                      /\ sessCall[c].value.accessToken = sessCall[c].token.raw

C29_Witness ==
    /\ vjtCall.token = TokAdminNoExp /\ vjtCall.at = now /\ vjtCall.result.isValid
    /\ \E r \in NoExpReqs :
          /\ axiosReq[r].pc = "done" /\ axiosReq[r].token = TokAdminNoExp
          /\ axiosReq[r].at = now
          /\ axiosReq[r].authorization = "Bearer h.admin.s"
    /\ \E c \in NoExpCallers :
          /\ ReadNoExp(c) /\ sessCall[c].token = TokAdminNoExp
          /\ sessCall[c].checkFailed
          /\ sessCall[c].value.kind = "session" /\ sessCall[c].value.id = "u3"

-----------------------------------------------------------------------------
(* MetadataForm: the five-step form of metadata-form.tsx (lines 34-131)    *)

MaxSaves == 1              \* the handleSave calls of these runs
totalSteps == 5
SaveIds == 1..MaxSaves

(* the sections of formData, in the order of the steps that fill them *)
Sections == <<"generalInfo", "technicalDetails", "dataQuality", "accessInfo">>
SectionNames == {Sections[i] : i \in 1..Len(Sections)}

(* the stepData objects a step form hands to onNext *)
StepData == {"data-a", "data-b"}

(* initialData || {} without initial data *)
EmptyFormData == [n \in SectionNames |-> Absent]

(* the metadataId prop: absent when adding, an id when editing *)
MetadataIds == {Absent, "m1"}

IdleSave == [pc |-> "idle", api |-> "none", payload |-> EmptyFormData,
             outcome |-> "none", submittingAfter |-> FALSE]

(* what createMetadata / updateMetadata can do: resolve with success,     *)
(* resolve with an error, or throw                                        *)
SaveOutcomes == {"success", "failure", "throws"}

formFrame == <<now, localValidationCache, vjtCall, mwResponse, sessVars, users,
               resetVars, authVars, forgotReq, refreshReq, loginCall, logoutCall,
               axiosReq, mwCall, verifyReq, emailVerified, cacheOp>>

(* setFormData(prev => ({...prev, [section]: stepData})); setCurrentStep(k + 1) *)
(* the step form that calls the handler is rendered only at currentStep = k     *)
StepNext_DropsSection(k, stepData) ==
    /\ form.currentStep = k
    /\ form' = [form EXCEPT !.currentStep = k + 1]
    /\ UNCHANGED formFrame

StepNext(k, stepData) ==
    /\ form.currentStep = k
    /\ form' = [form EXCEPT !.formData[Sections[k]] = stepData,
                            !.currentStep = k + 1]
    /\ UNCHANGED formFrame

handleGeneralInfoNext(stepData) == StepNext(1, stepData)
handleTechnicalDetailsNext(stepData) == StepNext(2, stepData)
handleDataQualityNext(stepData) == StepNext(3, stepData)
handleAccessInfoNext(stepData) == StepNext(4, stepData)

(* Math.max(a, b) *)
MathMax(a, b) == IF a >= b THEN a ELSE b

(* onBack is handed to the forms of steps 2..5 only *)
handlePrevious ==
    /\ form.currentStep \in 2..totalSteps
    /\ form' = [form EXCEPT !.currentStep = MathMax(form.currentStep - 1, 1)]
    /\ UNCHANGED formFrame

(* !formData.generalInfo || !formData.dataQuality || ... *)
SectionsMissing(formData) == \E n \in SectionNames : ~Truthy(formData[n])

(* handleSave up to its await: ReviewForm (step 5) calls onSave *)
handleSave(s) ==
    /\ form.currentStep = totalSteps
    /\ form.save[s].pc = "idle"
    /\ IF SectionsMissing(form.formData)
       THEN form' = [form EXCEPT !.isSubmitting = FALSE,
                                 !.save[s] = [IdleSave EXCEPT !.pc = "done",
                                                !.outcome = "incomplete",
                                                !.submittingAfter = FALSE]]
       ELSE form' = [form EXCEPT !.isSubmitting = TRUE,
                                 !.save[s] = [IdleSave EXCEPT !.pc = "awaiting",
                                                !.api = IF Truthy(form.metadataId)
                                                        THEN "updateMetadata"
                                                        ELSE "createMetadata",
                                                !.payload = form.formData]]
    /\ UNCHANGED formFrame

(* the awaited call settles; then, try / catch / finally *)
SaveSettles(s, outcome) ==
    /\ form.save[s].pc = "awaiting"
    /\ form' = [form EXCEPT !.isSubmitting = FALSE,
                            !.pushed = @ \/ outcome = "success",
                            !.save[s].pc = "done",
                            !.save[s].outcome = outcome,
                            !.save[s].submittingAfter = FALSE]
    /\ UNCHANGED formFrame

InitForm ==
    /\ now = 0
    /\ localValidationCache = <<>>
    /\ vjtCall = NoCall
    /\ mwResponse = NoResponse
    /\ InitOther
    /\ mwCall = <<>>
    /\ verifyReq = <<>>
    /\ emailVerified = {}
    /\ cacheOp = <<>>
    /\ \E id \in MetadataIds :
          form = [currentStep |-> 1, isSubmitting |-> FALSE,
                  formData |-> EmptyFormData, metadataId |-> id,
                  pushed |-> FALSE, save |-> [s \in SaveIds |-> IdleSave]]

NextForm ==
    \/ \E d \in StepData : handleGeneralInfoNext(d)
    \/ \E d \in StepData : handleTechnicalDetailsNext(d)
    \/ \E d \in StepData : handleDataQualityNext(d)
    \/ \E d \in StepData : handleAccessInfoNext(d)
    \/ handlePrevious
    \/ \E s \in SaveIds : handleSave(s)
    \/ \E s \in SaveIds, o \in SaveOutcomes : SaveSettles(s, o)

SpecForm == InitForm /\ [][NextForm]_vars

SaveInProgress == \E s \in SaveIds : form.save[s].pc = "awaiting"

(* C30: in the form started without initial data, currentStep stays within *)
(* 1..5; at currentStep = k the sections of steps 1..k-1 are present in    *)
(* formData; createMetadata or updateMetadata is invoked only with all     *)
(* four sections present; and isSubmitting is false again once a save      *)
(* attempt has finished.                                                   *)
C30_StepsSectionsAndSubmitting ==
    /\ form.currentStep \in 1..totalSteps
    /\ \A j \in 1..(form.currentStep - 1) : Truthy(form.formData[Sections[j]])
    /\ \A s \in SaveIds :
          /\ form.save[s].api # "none" => ~SectionsMissing(form.save[s].payload)
          /\ form.save[s].pc = "done" => ~form.save[s].submittingAfter
    /\ ~SaveInProgress => ~form.isSubmitting

(* a save created the record with all four sections, failed, and the user  *)
(* went back two steps                                                     *)
C30_Witness ==
    /\ form.currentStep = 3
    /\ ~form.isSubmitting
    /\ \E s \in SaveIds :
          /\ form.save[s].pc = "done"
          /\ form.save[s].api = "createMetadata"
          /\ form.save[s].outcome = "failure"
          /\ form.save[s].payload = form.formData
          /\ ~SectionsMissing(form.save[s].payload)

====
